---- MODULE Spec2Model ----
(***************************************************************************)
(* Scan orchestration pipeline of health-gap-app: the POST /api/scan       *)
(* coordinator (deadline race, stage order), the shared rate limiter, the  *)
(* retry executor, the UI synthesis recovery paths, the vision and intent  *)
(* stages, and the research stage (consensus reduction, batch scheduling,  *)
(* risk ordering, one ingredient's research).  Each component has its own  *)
(* specification over its own variables; the variables of the other        *)
(* components stay at their initial value.                                  *)
(***************************************************************************)
EXTENDS Integers, Sequences, FiniteSets, TLC

VARIABLES
    \* ---- coordinator (apps/backend/src/index.ts, POST /api/scan) ----
    req,            \* the validated ScanRequest: which optional fields are present
    pc,             \* the await the job is suspended at, or "settled"
    ingredients,    \* number of entries of the job's `ingredients` array
    started,        \* stages in the order their call was issued
    returned,       \* stages in the order their call returned
    intentOut,      \* what intentInference resolved with ({} before)
    researchArgs,   \* the arguments researchAgent was called with ({} before)
    researchOut,    \* what researchAgent resolved with ({} before)
    uiArgs,         \* the arguments generateUI was called with ({} before)
    jobResult,      \* how the job promise settled ("pending" before)
    timerFired,     \* the deadline timer has rejected the timeout promise
    firstSettled,   \* which of the two raced promises settled first
    response,       \* what Promise.race settled the handler with
    handler,        \* which POST /api/scan handler of index.ts serves the request
    failureBody,    \* the JSON body returned in the vision-failure branch ({} otherwise)
    histWrite,      \* the saveScanHistory write: "none", "pending", "ok", "failed"
    scanWrite,      \* the scans insert: "none", "pending", "ok", "failed", "skipped"
    \* ---- shared rate limiter (RateLimiter.throttle / rateLimitedCall) ----
    now,            \* Date.now(), in milliseconds
    lastRequestTime,\* the limiter's only field
    lpc,            \* per caller: "idle", "sleeping" (in the await) or "dispatched"
    wakeAt,         \* per sleeping caller: when its setTimeout expires
    arrivals,       \* callers in the order they entered throttle
    dispatches,     \* [caller, time] in the order fn() was called
    \* ---- retry executor (withRetry, packages/shared/src/utils.ts) ----
    rRetries,       \* options.retries
    rAttempt,       \* the loop variable `attempt`
    rState,         \* "calling" (fn in flight), "waiting" (backoff), "returned", "thrown"
    rLastError,     \* the variable `lastError`
    rWait,          \* `waitTime` of the most recent backoff, in milliseconds
    rOutcome,       \* the value returned or the error thrown to the caller
    rCalls,         \* how many times fn has been invoked
    rWaits,         \* how many backoff waits have been started
    rAttemptErr,    \* what the most recent invocation of fn rejected with
    rAllRetryable,  \* every rejection so far satisfied retryOn
    \* ---- UI synthesis (generateUI, packages/ai-engine/src/ui/ui.ts) ----
    uiAttempt,      \* withRetry's attempt counter around the generation call
    uiState,        \* "calling", "returned" or "thrown"
    uiPath,         \* the return path taken: "strict", "flexible" or "static"
    uiResult,       \* the DynamicUIResponse returned: schema names and components
    \* ---- research stage (researchAgent, packages/ai-engine/src/research.ts) ----
    resN,           \* length of ingredientsToProcess
    resPc,          \* "batches", "grounded" (groundedResearch assigned) or "done"
    grounded,       \* the GroundedResearchResult under construction / assigned
    resOut,         \* consensusStatus and tradeOffContexts of the result
    resKey,         \* config.EXA_API_KEY is configured
    resSearched,    \* researchIngredient calls issued, i.e. ingredients searched for
    \* ---- vision stage (visionAgent, packages/ai-engine/src/vision.ts) ----
    vAttempt,       \* withRetry's attempt counter around the extraction
    vState,         \* "calling", "returned" or "thrown"
    vPrimary,       \* what the vision model call produced in the attempt that settled
    vTransport,     \* a model call of the last attempt failed at transport level
    vResult,        \* the VisionAgentResult returned
    \* ---- research scheduling (researchAgent / performGroundedResearch) ----
    selScan,        \* length of the scan's `ingredients`
    selRisk,        \* Absent, or the length of riskAssessment.ingredientsToResearch
    selDeep,        \* how many of the research set are HIGH or MODERATE scrutiny
    bpc,            \* "select", "sort", "loop", "batch" or "returned"
    bSetSize,       \* length of ingredientsToResearch after the selection
    bProcN,         \* length of ingredientsToProcess
    bIndex,         \* the loop variable i
    bRunning,       \* members of the current batch whose research is in flight
    bSettled,       \* researches of the current batch that have settled
    bRecords,       \* ingredientResearch, in push order
    bWarnings,      \* dataQualityWarnings, in push order
    bConflicts,     \* unresolvedConflicts, in push order (the ingredient of each)
    bElapsed,       \* Date.now() - startTime, in milliseconds
    bBatches,       \* sizes of the batches started, in order
    bStopped,       \* the loop broke on the time limit
    bResult,        \* "none", or what researchAgent's race settled groundedResearch with
    \* ---- risk ordering (performGroundedResearch, sort and cap) ----
    srtLevels,      \* risk level of each ingredient of ingredientsToResearch
    srtPc,          \* "sort", "cap", "loop" or "returned"
    srtSorted,      \* sortedIngredients, as indices into ingredientsToResearch
    srtProcess,     \* ingredientsToProcess, as indices
    srtDone,        \* how many of ingredientsToProcess have been researched
    srtStopped,     \* the loop broke on the time limit
    srtAttempt,     \* withRetry's attempt counter around researchAgent's body
    srtEarlier,     \* ingredients researched in earlier attempts of the request
    \* ---- one ingredient's research (researchIngredient) ----
    ingRisk,        \* the riskLevel argument
    ingPc,          \* "primary", "decide", "regulatory" or "returned"
    ingSearches,    \* exa.search calls issued
    ingPrimaryClaims, \* claims gathered by the primary query
    ingClaims,      \* allClaims.length
    ingPrimary,     \* the primary analysis' conflict verdict, if it was made
    ingSecondary,   \* the secondary analysis' conflict verdict, if it was made
    ingVerdict,     \* conflictResult
    \* ---- intent stage (intentInference, packages/ai-engine/src/intent.ts) ----
    intHistory,     \* recentScanHistory: for each entry, whether productName is non-empty
    intAttempt,     \* withRetry's attempt counter around the inference
    intState,       \* "calling", "returned" or "thrown"
    intContent,     \* what the model call produced in the attempt that settled
    intPath,        \* "none", "default", "parsed" or "fallback": the return taken
    intResult       \* the IntentInferenceResult returned

\* The coordinator's variables about the body returned and the persistence.
pipeExtra == <<handler, failureBody, histWrite, scanWrite>>

pipeVars == <<req, pc, ingredients, started, returned, intentOut, researchArgs,
              researchOut, uiArgs, jobResult, timerFired, firstSettled, response,
              pipeExtra>>

limVars == <<now, lastRequestTime, lpc, wakeAt, arrivals, dispatches>>

retryVars == <<rRetries, rAttempt, rState, rLastError, rWait, rOutcome, rCalls,
               rWaits, rAttemptErr, rAllRetryable>>

uiVars == <<uiAttempt, uiState, uiPath, uiResult>>

resVars == <<resN, resPc, grounded, resOut, resKey, resSearched>>

visVars == <<vAttempt, vState, vPrimary, vTransport, vResult>>

batchVars == <<selScan, selRisk, selDeep, bpc, bSetSize, bProcN, bIndex, bRunning,
               bSettled, bRecords, bWarnings, bConflicts, bElapsed, bBatches, bStopped,
               bResult>>

sortVars == <<srtLevels, srtPc, srtSorted, srtProcess, srtDone, srtStopped, srtAttempt,
              srtEarlier>>

ingVars == <<ingRisk, ingPc, ingSearches, ingPrimaryClaims, ingClaims, ingPrimary,
             ingSecondary, ingVerdict>>

intVars == <<intHistory, intAttempt, intState, intContent, intPath, intResult>>

vars == <<pipeVars, limVars, retryVars, uiVars, resVars, visVars, batchVars, sortVars, ingVars,
         intVars>>

\* What the actions of one component leave alone: the other components.
notIng == <<pipeVars, limVars, retryVars, uiVars, resVars, visVars, batchVars, sortVars,
    intVars>>
notInt == <<pipeVars, limVars, retryVars, uiVars, resVars, visVars, batchVars, sortVars, ingVars>>
notPipe == <<limVars, retryVars, uiVars, resVars, visVars, batchVars, sortVars, ingVars,
    intVars>>
notLim == <<pipeVars, retryVars, uiVars, resVars, visVars, batchVars, sortVars, ingVars,
    intVars>>
notRetry == <<pipeVars, limVars, uiVars, resVars, visVars, batchVars, sortVars, ingVars,
    intVars>>
notUI == <<pipeVars, limVars, retryVars, resVars, visVars, batchVars, sortVars, ingVars,
    intVars>>
notRes == <<pipeVars, limVars, retryVars, uiVars, visVars, batchVars, sortVars, ingVars,
    intVars>>
notVis == <<pipeVars, limVars, retryVars, uiVars, resVars, batchVars, sortVars, ingVars,
    intVars>>
notSort == <<pipeVars, limVars, retryVars, uiVars, resVars, visVars, batchVars, ingVars,
    intVars>>
notBatch == <<pipeVars, limVars, retryVars, uiVars, resVars, visVars, sortVars, ingVars,
    intVars>>

None == "none"

(***************************************************************************)
(* Bounds of the coordinator model.                                         *)
(***************************************************************************)
MaxIngredients == 2

Personas == {"General Health", "Fitness"}
RiskAssessments == {None, "risk1"}
Analyses == {"analysis1", "analysis2"}
ConsensusStatuses == {"CLEAR_CONSENSUS", "CONFLICTING_EVIDENCE", "INSUFFICIENT_DATA"}
TradeOffLists == {"noTradeOffs", "tradeOffs1"}

\* index.ts holds two handlers of POST /api/scan: the first detaches
\* Promise.allSettled over both writes, the second a block that awaits the
\* writes one after the other inside one try.
Handlers == {"allSettled", "sequential"}

\* ScanRequestSchema: every field optional, image or barcode required.
ScanRequests ==
    {r \in [image : BOOLEAN, barcode : BOOLEAN, sessionId : BOOLEAN] :
        r.image \/ r.barcode}

(***************************************************************************)
(* Promise.race([job, timeout]): the first promise to settle decides; a    *)
(* later settlement is discarded.                                           *)
(***************************************************************************)
RaceLastWins(current, incoming) == incoming

Race(current, incoming) == IF current = None THEN incoming ELSE current

\* The first await of the job, reached synchronously when the handler runs.
AfterStart(r) == IF r.barcode THEN "barcode" ELSE "vision"

AfterBarcodeIgnoresImage(n, r) ==
    IF n = 0 THEN "vision" ELSE IF r.sessionId THEN "history" ELSE "intent"

\* `if (!ingredients.length)` after the barcode lookup.
AfterBarcode(n, r) ==
    IF n = 0
    THEN IF r.image THEN "vision" ELSE "throw400"
    ELSE IF r.sessionId THEN "history" ELSE "intent"

\* After a vision Success: `sessionId ? await getRecentPatterns(..) : []`.
AfterVision(r) == IF r.sessionId THEN "history" ELSE "intent"

\* intentInference is followed by researchAgent, researchAgent by generateUI.
AfterIntent == "research"

AfterResearch == "ui"

ResearchArgsDropRisk(n, intent) ==
    [ingredients |-> n, persona |-> intent.persona, riskAssessment |-> None]

\* researchAgent(ingredients, intent.persona, intent.riskAssessment, ..)
ResearchArgsOf(n, intent) ==
    [ingredients |-> n, persona |-> intent.persona, riskAssessment |-> intent.riskAssessment]

\* generateUI(research.analysis, intent.persona, {consensusStatus, tradeOffContexts})
UIArgsOf(research, intent) ==
    [analysis |-> research.analysis, persona |-> intent.persona,
     consensusStatus |-> research.consensusStatus,
     tradeOffContexts |-> research.tradeOffContexts]

PipeInit ==
    /\ req \in ScanRequests
    /\ pc = AfterStart(req)
    /\ ingredients = 0
    /\ started = <<AfterStart(req)>>
    /\ returned = <<>>
    /\ intentOut = {}
    /\ researchArgs = {}
    /\ researchOut = {}
    /\ uiArgs = {}
    /\ jobResult = "pending"
    /\ timerFired = FALSE
    /\ firstSettled = None
    /\ response = None
    /\ handler \in Handlers
    /\ failureBody = {}
    /\ histWrite = "none"
    /\ scanWrite = "none"

\* The job promise settles with `result`; the race sees it.
SettleJob(result) ==
    /\ jobResult' = result
    /\ firstSettled' = IF firstSettled = None THEN "job" ELSE firstSettled
    /\ response' = Race(response, result)
    /\ pc' = "settled"

\* The job moves on to its next await without settling.
Continue(stage) ==
    /\ pc' = stage
    /\ started' = Append(started, stage)
    /\ UNCHANGED <<jobResult, firstSettled, response>>

\* fetchProductByBarcode resolves with a product whose parsed ingredient
\* list has n entries (n = 0 also stands for `null`).
BarcodeReturns ==
    /\ pc = "barcode"
    /\ \E n \in 0..MaxIngredients :
        /\ ingredients' = n
        /\ returned' = Append(returned, "barcode")
        /\ IF AfterBarcode(n, req) = "throw400"
           THEN SettleJob("error400") /\ UNCHANGED started
           ELSE Continue(AfterBarcode(n, req))
    /\ UNCHANGED <<req, intentOut, researchArgs, researchOut, uiArgs, timerFired>>
    /\ UNCHANGED pipeExtra
    /\ UNCHANGED notPipe

\* visionAgent resolves with a Success carrying n ingredients.
VisionSucceeds ==
    /\ pc = "vision"
    /\ \E n \in 0..MaxIngredients :
        /\ ingredients' = n
        /\ returned' = Append(returned, "vision")
        /\ Continue(AfterVision(req))
    /\ UNCHANGED <<req, intentOut, researchArgs, researchOut, uiArgs, timerFired>>
    /\ UNCHANGED pipeExtra
    /\ UNCHANGED notPipe

\* The body of the vision-failure branch: status, message and confidence,
\* and no `components` field.
VisionFailedBody == [status |-> "vision_failed", components |-> <<>>]

\* visionAgent resolves with a Failure: the job returns the vision_failed payload.
VisionFails ==
    /\ pc = "vision"
    /\ returned' = Append(returned, "vision")
    /\ SettleJob("vision_failed")
    /\ failureBody' = {VisionFailedBody}
    /\ UNCHANGED <<handler, histWrite, scanWrite>>
    /\ UNCHANGED <<req, ingredients, started, intentOut, researchArgs, researchOut,
                   uiArgs, timerFired>>
    /\ UNCHANGED notPipe

\* getRecentPatterns resolves.
HistoryReturns ==
    /\ pc = "history"
    /\ returned' = Append(returned, "history")
    /\ Continue("intent")
    /\ UNCHANGED <<req, ingredients, intentOut, researchArgs, researchOut, uiArgs,
                   timerFired>>
    /\ UNCHANGED pipeExtra
    /\ UNCHANGED notPipe

\* intentInference resolves; researchAgent is called with its output.
IntentReturns ==
    /\ pc = "intent"
    /\ \E p \in Personas, ra \in RiskAssessments :
        LET intent == [persona |-> p, riskAssessment |-> ra] IN
        /\ intentOut' = {intent}
        /\ returned' = Append(returned, "intent")
        /\ Continue(AfterIntent)
        /\ researchArgs' = {ResearchArgsOf(ingredients, intent)}
    /\ UNCHANGED <<req, ingredients, researchOut, uiArgs, timerFired>>
    /\ UNCHANGED pipeExtra
    /\ UNCHANGED notPipe

\* researchAgent resolves; generateUI is called with its output.
ResearchReturns ==
    /\ pc = "research"
    /\ \E a \in Analyses, cs \in ConsensusStatuses, t \in TradeOffLists :
        LET research == [analysis |-> a, consensusStatus |-> cs, tradeOffContexts |-> t] IN
        /\ researchOut' = {research}
        /\ returned' = Append(returned, "research")
        /\ Continue(AfterResearch)
        /\ uiArgs' = {UIArgsOf(research, i) : i \in intentOut}
    /\ UNCHANGED <<req, ingredients, intentOut, researchArgs, timerFired>>
    /\ UNCHANGED pipeExtra
    /\ UNCHANGED notPipe

\* The writes started synchronously when the persistence is detached.
HistoryWriteStarted(r) == IF r.sessionId THEN "pending" ELSE "none"

ScanWriteStarted(h, r) ==
    IF h = "sequential" /\ r.sessionId THEN "none" ELSE "pending"

\* generateUI resolves; persistence is detached and the job returns c.json(ui).
UIReturns ==
    /\ pc = "ui"
    /\ returned' = Append(returned, "ui")
    /\ SettleJob("ui_response")
    /\ histWrite' = HistoryWriteStarted(req)
    /\ scanWrite' = ScanWriteStarted(handler, req)
    /\ UNCHANGED <<handler, failureBody>>
    /\ UNCHANGED <<req, ingredients, started, intentOut, researchArgs, researchOut,
                   uiArgs, timerFired>>
    /\ UNCHANGED notPipe

\* What a settled history write does to the scans insert: nothing when both
\* are under Promise.allSettled; in the sequential block the insert starts
\* after a successful write and is never reached after a failed one.
ScanWriteAfterHistory(h, outcome, current) ==
    IF h = "sequential"
    THEN IF outcome = "ok" THEN "pending" ELSE "skipped"
    ELSE current

\* saveScanHistory settles.
HistoryWriteSettles ==
    /\ histWrite = "pending"
    /\ \E outcome \in {"ok", "failed"} :
        /\ histWrite' = outcome
        /\ scanWrite' = ScanWriteAfterHistory(handler, outcome, scanWrite)
    /\ UNCHANGED <<req, pc, ingredients, started, returned, intentOut, researchArgs,
                   researchOut, uiArgs, jobResult, timerFired, firstSettled, response,
                   handler, failureBody>>
    /\ UNCHANGED notPipe

\* The scans insert settles.
ScanWriteSettles ==
    /\ scanWrite = "pending"
    /\ \E outcome \in {"ok", "failed"} : scanWrite' = outcome
    /\ UNCHANGED <<req, pc, ingredients, started, returned, intentOut, researchArgs,
                   researchOut, uiArgs, jobResult, timerFired, firstSettled, response,
                   handler, failureBody, histWrite>>
    /\ UNCHANGED notPipe

\* The awaited call rejects (retries exhausted): the job promise rejects.
StageThrows ==
    /\ pc \in {"barcode", "vision", "history", "intent", "research", "ui"}
    /\ SettleJob("error500")
    /\ UNCHANGED <<req, ingredients, started, returned, intentOut, researchArgs,
                   researchOut, uiArgs, timerFired>>
    /\ UNCHANGED pipeExtra
    /\ UNCHANGED notPipe

\* The deadline timer fires: the timeout promise rejects with HTTP 408.
\* The job is not cancelled and keeps running.
TimeoutFires ==
    /\ ~timerFired
    /\ timerFired' = TRUE
    /\ firstSettled' = IF firstSettled = None THEN "timer" ELSE firstSettled
    /\ response' = Race(response, "timeout408")
    /\ UNCHANGED <<req, pc, ingredients, started, returned, intentOut, researchArgs,
                   researchOut, uiArgs, jobResult>>
    /\ UNCHANGED pipeExtra
    /\ UNCHANGED notPipe

PipeNext ==
    \/ BarcodeReturns
    \/ VisionSucceeds
    \/ VisionFails
    \/ HistoryReturns
    \/ IntentReturns
    \/ ResearchReturns
    \/ UIReturns
    \/ HistoryWriteSettles
    \/ ScanWriteSettles
    \/ StageThrows
    \/ TimeoutFires

(***************************************************************************)
(* Claims about the coordinator.                                            *)
(***************************************************************************)
Range(seq) == {seq[i] : i \in 1..Len(seq)}

StageRank(stage) ==
    CASE stage = "barcode" -> 1
      [] stage = "vision" -> 2
      [] stage = "history" -> 3
      [] stage = "intent" -> 4
      [] stage = "research" -> 5
      [] stage = "ui" -> 6

\* C1: the handler's response is the settlement of whichever of the job and
\* the deadline timer settled first: the timeout response when the timer
\* fired while a stage was still in flight, the job's result when the job
\* settled first; once the timer has fired the request has been answered.
C1_DeadlineRace ==
    /\ firstSettled = "timer" => response = "timeout408"
    /\ firstSettled = "job" => jobResult # "pending" /\ response = jobResult
    /\ firstSettled = None => response = None /\ ~timerFired /\ jobResult = "pending"
    /\ timerFired => response # None
    /\ jobResult # "pending" => response # None

\* The deadline fired while researchAgent was in flight and the job later
\* went on to generateUI: the response is the timeout.
C1_Witness ==
    /\ firstSettled = "timer"
    /\ response = "timeout408"
    /\ pc = "ui"
    /\ jobResult = "pending"

\* C2: stages are started in the order vision, intent, research, UI, each
\* only after the stage before it has returned; research is called with the
\* intent stage's persona and risk assessment, UI synthesis with the research
\* stage's analysis, consensus status and trade-off contexts.
C2_StageOrder ==
    /\ \A i, j \in 1..Len(started) :
          i < j => StageRank(started[i]) < StageRank(started[j])
    /\ \A i \in 2..Len(started) : started[i - 1] \in Range(returned)
    /\ Len(returned) <= Len(started)
    /\ \A i \in 1..Len(returned) : returned[i] = started[i]
    /\ IF "research" \in Range(started)
       THEN /\ intentOut # {}
            /\ researchArgs =
                 {[ingredients |-> ingredients, persona |-> i.persona,
                   riskAssessment |-> i.riskAssessment] : i \in intentOut}
       ELSE researchArgs = {}
    /\ IF "ui" \in Range(started)
       THEN /\ researchOut # {}
            /\ uiArgs =
                 {[analysis |-> r.analysis, persona |-> i.persona,
                   consensusStatus |-> r.consensusStatus,
                   tradeOffContexts |-> r.tradeOffContexts] :
                      r \in researchOut, i \in intentOut}
       ELSE uiArgs = {}

\* A run through all four stages, with a present risk assessment handed on.
C2_Witness ==
    /\ {"vision", "intent", "research", "ui"} \subseteq Range(started)
    /\ "ui" \in Range(returned)
    /\ \E a \in researchArgs : a.riskAssessment = "risk1"

ModelStages == {"vision", "intent", "research", "ui"}

\* C13: after a vision Failure the job is done without intent, research or
\* UI synthesis, and the response has status vision_failed and exactly one
\* component, a ConversationPrompt with non-empty suggestedQuestions.
C13_VisionFailureResponse ==
    jobResult = "vision_failed" =>
        /\ Range(started) \cap {"intent", "research", "ui"} = {}
        /\ \A b \in failureBody :
              /\ b.status = "vision_failed"
              /\ Len(b.components) = 1
              /\ b.components[1].component = "ConversationPrompt"
              /\ b.components[1].suggestedQuestions > 0

\* C14: the intent, research and UI synthesis stages are started only with
\* at least one ingredient.
C14_NeverZeroIngredients ==
    Range(started) \cap {"intent", "research", "ui"} # {} => ingredients >= 1

\* C15: when the barcode lookup yields no ingredient and the request has no
\* image, the job rejects with the input error and no model stage is
\* started.
C15_NoImageRejected ==
    /\ "barcode" \in Range(returned) /\ ingredients = 0 /\ ~req.image =>
          jobResult = "error400" /\ started = <<"barcode">>
    /\ jobResult = "error400" =>
          /\ Range(started) \cap ModelStages = {}
          /\ ~req.image
          /\ response \in {"error400", "timeout408"}

C15_Witness ==
    /\ jobResult = "error400"
    /\ response = "error400"
    /\ returned = <<"barcode">>

\* C19: persistence starts only after generateUI has returned; a failed
\* write does not keep the other write from being attempted, and leaves the
\* job's result the UI response.
C19_IndependentPersistence ==
    /\ histWrite # "none" \/ scanWrite # "none" => "ui" \in Range(returned)
    /\ histWrite = "failed" => scanWrite \in {"pending", "ok", "failed"}
    /\ scanWrite = "failed" /\ req.sessionId => histWrite # "none"
    /\ histWrite = "failed" \/ scanWrite = "failed" =>
          jobResult = "ui_response" /\ response \in {"ui_response", "timeout408"}

\* C20: a failure of the session history store never fails the request:
\* the job never rejects while the history read is the call in flight.
C20_HistoryNeverThrows ==
    jobResult = "error500" =>
        ~(started # <<>> /\ started[Len(started)] = "history"
          /\ "history" \notin Range(returned))

(***************************************************************************)
(* The shared rate limiter.  Several callers (the concurrent researches of  *)
(* a batch, concurrent requests) call throttle on one RateLimiter; each     *)
(* call runs to its await or to its dispatch without interleaving.          *)
(***************************************************************************)
DEFAULT_MIN_INTERVAL_MS == 2500

\* Granularity of the modelled clock.
TickMs == DEFAULT_MIN_INTERVAL_MS \div 2

NumCallers == 3
MaxTicks == 4

Callers == 1..NumCallers

\* The clock starts well after the epoch: the first call never waits.
StartTime == DEFAULT_MIN_INTERVAL_MS

\* `minIntervalMs - timeSinceLastRequest` when positive, else no wait.
ThrottleWait(n, last, minInterval) ==
    IF n - last < minInterval THEN minInterval - (n - last) ELSE 0

LimInit ==
    /\ now = StartTime
    /\ lastRequestTime = 0
    /\ lpc = [c \in Callers |-> "idle"]
    /\ wakeAt = [c \in Callers |-> 0]
    /\ arrivals = <<>>
    /\ dispatches = <<>>

\* `this.lastRequestTime = Date.now(); return fn();`
Dispatch(c) ==
    /\ lastRequestTime' = now
    /\ dispatches' = Append(dispatches, [caller |-> c, time |-> now])
    /\ lpc' = [lpc EXCEPT ![c] = "dispatched"]

\* A caller enters throttle: it reads the clock and either dispatches at
\* once or suspends in `await new Promise(r => setTimeout(r, wait))`.
Enter(c) ==
    /\ lpc[c] = "idle"
    /\ arrivals' = Append(arrivals, c)
    /\ LET wait == ThrottleWait(now, lastRequestTime, DEFAULT_MIN_INTERVAL_MS) IN
        \/ /\ wait = 0
           /\ Dispatch(c)
           /\ UNCHANGED wakeAt
        \/ /\ wait > 0
           /\ lpc' = [lpc EXCEPT ![c] = "sleeping"]
           /\ wakeAt' = [wakeAt EXCEPT ![c] = now + wait]
           /\ UNCHANGED <<lastRequestTime, dispatches>>
    /\ UNCHANGED now
    /\ UNCHANGED notLim

\* The timer of a sleeping caller has expired and its continuation runs.
\* Expired timers run in the order of their expiry times; the runtime
\* promises no order between timers that expire together.
Wake(c) ==
    /\ lpc[c] = "sleeping"
    /\ now >= wakeAt[c]
    /\ \A d \in Callers : lpc[d] = "sleeping" => wakeAt[d] >= wakeAt[c]
    /\ Dispatch(c)
    /\ UNCHANGED <<now, wakeAt, arrivals>>
    /\ UNCHANGED notLim

\* Time passes.
Tick ==
    /\ now < StartTime + MaxTicks * TickMs
    /\ now' = now + TickMs
    /\ UNCHANGED <<lastRequestTime, lpc, wakeAt, arrivals, dispatches>>
    /\ UNCHANGED notLim

LimNext ==
    \/ \E c \in Callers : Enter(c)
    \/ \E c \in Callers : Wake(c)
    \/ Tick

\* C3: no two wrapped operations are dispatched less than minInterval
\* apart, also for callers that arrive while another caller is waiting.
C3_MinSpacing ==
    \A i, j \in 1..Len(dispatches) :
        i < j => dispatches[j].time - dispatches[i].time >= DEFAULT_MIN_INTERVAL_MS

\* C30: callers are released in arrival order (a caller that entered
\* throttle before another is dispatched before it), and the shared
\* last-call timestamp, written at each dispatch, never decreases.
C30_ArrivalOrder ==
    /\ \A k \in 1..Len(dispatches) : dispatches[k].caller = arrivals[k]
    /\ \A i, j \in 1..Len(dispatches) :
          i < j => dispatches[i].time <= dispatches[j].time
    /\ Len(dispatches) > 0 => lastRequestTime = dispatches[Len(dispatches)].time

(***************************************************************************)
(* The retry executor.  fn is an arbitrary fallible operation: each         *)
(* invocation either resolves with a value or rejects with an error.       *)
(***************************************************************************)
DefaultRetries == 3
DefaultDelay == 1000
DefaultBackoff == 2
RetryAfterMargin == 500

\* Bound on the retry-after header values, in tenths of a second.
MaxRetryAfterDs == 50

HttpStatuses == {302, 400, 404, 429, 499, 500, 599, 600}

\* The retry-after header: absent, a string parseFloat cannot read, or a
\* number of seconds (as a number or a numeric string), here in tenths.
RetryAfterHeaders ==
    {[kind |-> "absent", ds |-> 0], [kind |-> "text", ds |-> 0]}
    \cup {[kind |-> "seconds", ds |-> d] :
            d \in {x \in {0, 8, 10, 15, 18, 30, 45, 50, 51} : x <= MaxRetryAfterDs}}

\* What fn may reject with: a non-object (isObject = FALSE), or an object
\* with or without a `status`, whose message may contain "rate_limit".
Errors ==
    {[isObject |-> FALSE, hasStatus |-> FALSE, status |-> 0, rateMsg |-> FALSE,
      header |-> [kind |-> "absent", ds |-> 0]]}
    \cup {[isObject |-> TRUE, hasStatus |-> FALSE, status |-> 0, rateMsg |-> m, header |-> h] :
            m \in BOOLEAN, h \in RetryAfterHeaders}
    \cup {[isObject |-> TRUE, hasStatus |-> TRUE, status |-> st, rateMsg |-> m, header |-> h] :
            st \in HttpStatuses, m \in BOOLEAN, h \in RetryAfterHeaders}

NoError ==
    [isObject |-> FALSE, hasStatus |-> FALSE, status |-> 0, rateMsg |-> FALSE,
     header |-> [kind |-> "none", ds |-> 0]]

Values == {"value1", "value2"}

RECURSIVE Pow(_, _)
Pow(b, e) == IF e = 0 THEN 1 ELSE b * Pow(b, e - 1)

\* extractRetryAfter: Math.ceil(seconds * 1000), or null.
extractRetryAfter(e) ==
    IF e.isObject /\ e.header.kind = "seconds"
    THEN [isNull |-> FALSE, ms |-> e.header.ds * 100]
    ELSE [isNull |-> TRUE, ms |-> 0]

isRateLimitError(e) ==
    /\ e.isObject
    /\ \/ (e.hasStatus /\ e.status = 429)
       \/ e.rateMsg

RetryOnWithout5xx(e) ==
    IF isRateLimitError(e) THEN TRUE
    ELSE IF e.isObject /\ e.hasStatus THEN FALSE
    ELSE TRUE

defaultRetryOn(e) ==
    IF isRateLimitError(e) THEN TRUE
    ELSE IF e.isObject /\ e.hasStatus
         THEN e.status >= 500 /\ e.status < 600
         ELSE TRUE

StopRetryingEarly(attempt, retries, e) == attempt + 1 >= retries \/ ~defaultRetryOn(e)

\* `if (attempt === retries || !retryOn(error)) throw error;`
StopRetrying(attempt, retries, e) == attempt = retries \/ ~defaultRetryOn(e)

\* waitTime: delay * backoff^attempt, replaced by retryAfter + 500 when the
\* hint exceeds it.
WaitTime(attempt, e) ==
    LET computed == DefaultDelay * Pow(DefaultBackoff, attempt)
        retryAfter == extractRetryAfter(e)
    IN  IF ~retryAfter.isNull /\ retryAfter.ms > computed
        THEN retryAfter.ms + RetryAfterMargin
        ELSE computed

\* withRetry has been called and has invoked fn for the first time.
RetryInit ==
    /\ rRetries \in 0..DefaultRetries
    /\ rAttempt = 0
    /\ rState = "calling"
    /\ rLastError = NoError
    /\ rWait = 0
    /\ rOutcome = [kind |-> "pending", value |-> "", error |-> NoError]
    /\ rCalls = 1
    /\ rWaits = 0
    /\ rAttemptErr = NoError
    /\ rAllRetryable = TRUE

\* fn resolves: `return await fn()`.
FnResolves ==
    /\ rState = "calling"
    /\ \E v \in Values :
        rOutcome' = [kind |-> "returned", value |-> v, error |-> NoError]
    /\ rState' = "returned"
    /\ UNCHANGED <<rRetries, rAttempt, rLastError, rWait, rCalls, rWaits, rAttemptErr,
                   rAllRetryable>>
    /\ UNCHANGED notRetry

\* fn rejects with e: the catch block runs up to its throw or its await.
FnRejects ==
    /\ rState = "calling"
    /\ \E e \in Errors :
        /\ rAttemptErr' = e
        /\ rAllRetryable' = (rAllRetryable /\ defaultRetryOn(e))
        /\ rLastError' = e
        /\ IF StopRetrying(rAttempt, rRetries, e)
           THEN /\ rState' = "thrown"
                /\ rOutcome' = [kind |-> "thrown", value |-> "", error |-> e]
                /\ UNCHANGED <<rWait, rWaits>>
           ELSE /\ rState' = "waiting"
                /\ rWait' = WaitTime(rAttempt, e)
                /\ rWaits' = rWaits + 1
                /\ UNCHANGED rOutcome
    /\ UNCHANGED <<rRetries, rAttempt, rCalls>>
    /\ UNCHANGED notRetry

\* The backoff timer expires: the loop increments attempt and, if the loop
\* condition still holds, invokes fn again; else `throw lastError`.
BackoffElapsed ==
    /\ rState = "waiting"
    /\ rAttempt' = rAttempt + 1
    /\ IF rAttempt + 1 <= rRetries
       THEN /\ rState' = "calling"
            /\ rCalls' = rCalls + 1
            /\ UNCHANGED rOutcome
       ELSE /\ rState' = "thrown"
            /\ rOutcome' = [kind |-> "thrown", value |-> "", error |-> rLastError]
            /\ UNCHANGED rCalls
    /\ UNCHANGED <<rRetries, rLastError, rWait, rWaits, rAttemptErr, rAllRetryable>>
    /\ UNCHANGED notRetry

RetryNext ==
    \/ FnResolves
    \/ FnRejects
    \/ BackoffElapsed

\* C4: fn is invoked at most retries + 1 times; a successful attempt ends
\* the loop with its value and no further invocation; when every attempt
\* failed with a retryable error, fn was invoked retries + 1 times and the
\* error thrown is the one of the last attempt.
C4_BoundedAttempts ==
    /\ rCalls <= rRetries + 1
    /\ rCalls = rAttempt + 1 \/ (rState = "thrown" /\ rCalls = rAttempt)
    /\ rState = "returned" =>
          /\ rOutcome.kind = "returned"
          /\ rOutcome.value \in Values
          /\ rCalls = rAttempt + 1
    /\ rState = "thrown" /\ rAllRetryable =>
          /\ rCalls = rRetries + 1
          /\ rOutcome.kind = "thrown"
          /\ rOutcome.error = rAttemptErr

\* Three retryable failures, then the fourth attempt fails too.
C4_Witness ==
    /\ rState = "thrown"
    /\ rAllRetryable
    /\ rRetries = DefaultRetries
    /\ rCalls = DefaultRetries + 1

\* The success case of C4: an attempt after a retry returned its value.
C4_WitnessSuccess ==
    /\ rState = "returned"
    /\ rCalls = 2

Max(a, b) == IF a >= b THEN a ELSE b

\* C5: after failed attempt a that is retried, the wait is
\* delay * backoff^a, or max(delay * backoff^a, h + 500) when the error
\* carries a retry-after hint of h milliseconds.
C5_WaitFormula ==
    rState = "waiting" =>
        LET computed == DefaultDelay * Pow(DefaultBackoff, rAttempt)
            hint == extractRetryAfter(rAttemptErr)
        IN  rWait = IF hint.isNull THEN computed
                    ELSE Max(computed, hint.ms + RetryAfterMargin)

\* The retry condition as the claim states it: status 429, a 5xx status, or
\* no recognisable status at all.
ClaimedRetryable(e) ==
    \/ e.hasStatus /\ e.status = 429
    \/ e.hasStatus /\ e.status \in 500..599
    \/ ~e.hasStatus

\* The retry condition of the code: as above, or a message containing
\* "rate_limit" whatever the status.
AmendedRetryable(e) ==
    \/ ClaimedRetryable(e)
    \/ e.isObject /\ e.rateMsg

\* Whether the failure withRetry has just handled was retried: it was unless
\* the error was thrown before the attempts were used up.
RetryDecisionIs(retryable(_)) ==
    /\ rState = "waiting" => retryable(rAttemptErr)
    /\ rState = "thrown" /\ rAttempt < rRetries => ~retryable(rAttemptErr)
    /\ rState = "thrown" /\ rAttempt = 0 /\ rRetries > 0 =>
          rCalls = 1 /\ rWaits = 0

\* C6 as stated: an error is retried exactly when it has status 429, a 5xx
\* status or no recognisable status; any other 4xx is rethrown at once.
C6_Original == RetryDecisionIs(ClaimedRetryable)

\* C6 amended: an error is retried exactly when it has status 429, its
\* message contains "rate_limit", it has a 5xx status, or it has no status;
\* an error that is not retried is rethrown after one invocation, unwaited.
C6_RetryPredicate == RetryDecisionIs(AmendedRetryable)

\* A 404 on the first attempt: thrown at once.
C6_Witness ==
    /\ rState = "thrown"
    /\ rAttempt = 0
    /\ rRetries = DefaultRetries
    /\ rAttemptErr.hasStatus
    /\ rAttemptErr.status = 404
    /\ ~rAttemptErr.rateMsg

(***************************************************************************)
(* UI synthesis.  One attempt of generateUI takes the content the model    *)
(* returned, parses it and returns through the strict path (with the       *)
(* schema self-heal), the flexible recovery or the static fallback, or it  *)
(* throws and withRetry (default options) makes the next attempt.  Props,  *)
(* prop types and metadata values are not modelled: a schema entry is its  *)
(* name, a component instance its component, variant and priority.         *)
(***************************************************************************)
MaxComps == 2
MinPriority == 1
MaxPriority == 10

Variants == {"card", "banner", "badge", "meter", "list", "comparison", "timeline"}

\* Component names the model may use; "" stands for any falsy value.
ModelNames == {"", "AllergenDetector", "TradeOffCard"}

\* One entry of the model's `components` array.  kind: null, a primitive,
\* or an object; hasComponent: the key `component` is present; variant ""
\* and priority 0 stand for an absent or falsy field.
RawItems ==
    {[kind |-> k, hasComponent |-> FALSE, component |-> "", variant |-> "", priority |-> 0] :
        k \in {"null", "primitive"}}
    \cup {[kind |-> "object", hasComponent |-> FALSE, component |-> "", variant |-> v,
           priority |-> pr] : v \in {"", "card", "hologram"}, pr \in {0, 5, 11}}
    \cup {[kind |-> "object", hasComponent |-> TRUE, component |-> n, variant |-> v,
           priority |-> pr] :
            n \in ModelNames, v \in {"", "card", "hologram"}, pr \in {0, 5, 11}}

RECURSIVE SeqsUpTo(_, _)
SeqsUpTo(S, n) ==
    IF n = 0 THEN {<<>>}
    ELSE LET shorter == SeqsUpTo(S, n - 1)
         IN  shorter \cup {Append(q, x) : q \in {t \in shorter : Len(t) = n - 1}, x \in S}

\* The `schema` the model wrote: of the wrong shape, or a list of entries.
RawSchemas ==
    {[valid |-> FALSE, names |-> <<>>]}
    \cup {[valid |-> TRUE, names |-> ns] :
            ns \in {<<>>, <<"AllergenDetector">>, <<"AllergenDetector", "TradeOffCard">>}}

\* What chatCompletion.choices[0].message.content may be.
ModelOutputs ==
    {[kind |-> k, schema |-> [valid |-> FALSE, names |-> <<>>], hasComponents |-> FALSE,
      isArray |-> FALSE, components |-> <<>>] : k \in {"empty", "notJson", "notObject"}}
    \cup {[kind |-> "object", schema |-> sc, hasComponents |-> FALSE, isArray |-> FALSE,
           components |-> <<>>] : sc \in RawSchemas}
    \cup {[kind |-> "object", schema |-> sc, hasComponents |-> TRUE, isArray |-> FALSE,
           components |-> <<>>] : sc \in RawSchemas}
    \cup {[kind |-> "object", schema |-> sc, hasComponents |-> TRUE, isArray |-> TRUE,
           components |-> cs] : sc \in RawSchemas, cs \in SeqsUpTo(RawItems, MaxComps)}

\* DynamicComponentSchema.safeParse of one entry.
StrictItemOk(it) ==
    /\ it.kind = "object"
    /\ it.hasComponent
    /\ it.variant \in Variants
    /\ it.priority >= MinPriority
    /\ it.priority <= MaxPriority

\* DynamicUIResponseSchema.safeParse(parsed).success
StrictParseOk(out) ==
    /\ out.kind = "object"
    /\ out.schema.valid
    /\ out.hasComponents
    /\ out.isArray
    /\ \A i \in 1..Len(out.components) : StrictItemOk(out.components[i])

Instance(it) ==
    [component |-> it.component, variant |-> it.variant, priority |-> it.priority]

\* validateComponentsMatchSchema: every component whose name is not among
\* the names the schema had on entry gets an entry pushed.
SelfHealedSchema(names, comps) ==
    LET used == [i \in 1..Len(comps) |-> comps[i].component]
        onEntry == Range(names)
    IN  names \o SelectSeq(used, LAMBDA n : n \notin onEntry)

DefaultName(index) ==
    CASE index = 0 -> "Component0"
      [] index = 1 -> "Component1"
      [] index = 2 -> "Component2"
      [] OTHER -> "ComponentN"

\* normalizeComponent(comp, index, userIntent) for a non-null comp.
normalizeComponent(it, index) ==
    [component |-> IF it.hasComponent /\ it.component # "" THEN it.component
                   ELSE DefaultName(index),
     variant |-> IF it.variant # "" THEN it.variant ELSE "card",
     priority |-> IF it.priority # 0 THEN it.priority ELSE index + 1]

\* inferSchemaFromComponentsWithLLM: one entry per distinct `component`
\* value of the object entries that have the key, in first-seen order.
RECURSIVE InferNames(_, _)
InferNames(comps, seen) ==
    IF comps = <<>> THEN <<>>
    ELSE LET it == Head(comps)
             take == it.kind = "object" /\ it.hasComponent /\ it.component \notin seen
         IN  IF take
             THEN <<it.component>> \o InferNames(Tail(comps), seen \cup {it.component})
             ELSE InferNames(Tail(comps), seen)

inferSchemaFromComponents(comps) == InferNames(comps, {})

\* The static fallback of attemptFlexibleRecovery.
StaticFallback ==
    [schema |-> <<"AnalysisResult">>,
     components |-> <<[component |-> "AnalysisResult", variant |-> "card", priority |-> 1]>>]

\* `"components" in parsed && Array.isArray(components) && components.length > 0`
Recoverable(out) ==
    /\ out.kind = "object"
    /\ out.hasComponents
    /\ out.isArray
    /\ Len(out.components) > 0

NoResult == [schema |-> <<>>, components |-> <<>>]

UIInit ==
    /\ uiAttempt = 0
    /\ uiState = "calling"
    /\ uiPath = None
    /\ uiResult = NoResult

UIReturn(path, result) ==
    /\ uiState' = "returned"
    /\ uiPath' = path
    /\ uiResult' = result
    /\ UNCHANGED uiAttempt

\* The attempt throws an Error without status: withRetry retries it unless
\* the attempts are used up (the backoff wait is part of this step).
UIAttemptFails ==
    /\ IF uiAttempt = DefaultRetries
       THEN uiState' = "thrown" /\ UNCHANGED uiAttempt
       ELSE uiAttempt' = uiAttempt + 1 /\ UNCHANGED uiState
    /\ UNCHANGED <<uiPath, uiResult>>

\* One attempt of generateUI on the content `out`.
GenerateUIAttempt ==
    /\ uiState = "calling"
    /\ \E out \in ModelOutputs :
        \/ /\ out.kind \in {"empty", "notJson"}
           /\ UIAttemptFails
        \/ /\ StrictParseOk(out)
           /\ LET comps == [i \in 1..Len(out.components) |-> Instance(out.components[i])]
              IN  UIReturn("strict",
                           [schema |-> SelfHealedSchema(out.schema.names, comps),
                            components |-> comps])
        \/ /\ out.kind \in {"notObject", "object"}
           /\ ~StrictParseOk(out)
           /\ Recoverable(out)
           /\ \E i \in 1..Len(out.components) : out.components[i].kind = "null"
           /\ UIAttemptFails
        \/ /\ out.kind \in {"notObject", "object"}
           /\ ~StrictParseOk(out)
           /\ Recoverable(out)
           /\ \A i \in 1..Len(out.components) : out.components[i].kind # "null"
           /\ UIReturn("flexible",
                       [schema |-> inferSchemaFromComponents(out.components),
                        components |-> [i \in 1..Len(out.components) |->
                                           normalizeComponent(out.components[i], i - 1)]])
        \/ /\ out.kind \in {"notObject", "object"}
           /\ ~StrictParseOk(out)
           /\ ~Recoverable(out)
           /\ UIReturn("static", StaticFallback)
    /\ UNCHANGED notUI

UINext == GenerateUIAttempt

\* C7: on every return path each returned component instance names an
\* entry of the returned schema.generatedComponents.
C7_ComponentsMatchSchema ==
    uiState = "returned" =>
        \A i \in 1..Len(uiResult.components) :
            uiResult.components[i].component \in Range(uiResult.schema)

\* C8: every returned DynamicUIResponse has at least one component
\* instance, each with a variant among the 7 layouts and a priority in 1..10.
C8_NonEmptyWellFormed ==
    uiState = "returned" =>
        /\ Len(uiResult.components) >= 1
        /\ \A i \in 1..Len(uiResult.components) :
              /\ uiResult.components[i].variant \in Variants
              /\ uiResult.components[i].priority \in MinPriority..MaxPriority

\* C11: malformed model output (empty content, non-JSON text, JSON of the
\* wrong shape) never makes the stage reject and is never retried: every
\* attempt on such content returns a fallback value.  Every failure of an
\* attempt in this specification is caused by the content.
C11_ContentErrorsContained ==
    /\ uiState # "thrown"
    /\ uiAttempt = 0

(***************************************************************************)
(* The research stage.  performGroundedResearch pushes one                  *)
(* IngredientResearch per processed ingredient, in ingredient order;       *)
(* researchAgent then derives the consensus status and the trade-off       *)
(* contexts.  Confidence scores are hundredths, with the rounding of the   *)
(* double mean kept where it decides a comparison; a claim is counted by   *)
(* its stance only (UNDER_REVIEW or not).                                   *)
(***************************************************************************)
\* getResearchDepth never allows more than 3 ingredients.
MaxIngredientsCap == 3

\* Bound on the claims gathered for one ingredient.
MaxClaims == 2

BATCH_SIZE == 2
MaxPositions == 4
ConsensusThreshold == 70

\* conflict.confidence values the analysis may report, in hundredths.
Confidences == {50, 70, 90}

\* What researchIngredient may resolve with: `claims` claims of which
\* `underReview` have stance UNDER_REVIEW, the conflict verdict, whether a
\* conflict summary is present, and the confidence score.  The summary is
\* read only for a detected conflict, so it is left out without one.
IngredientResearches ==
    {ir \in [claims : 0..MaxClaims, underReview : 0..MaxClaims,
             conflictDetected : BOOLEAN, hasSummary : BOOLEAN,
             confidenceScore : Confidences] :
        /\ ir.underReview <= ir.claims
        /\ ir.hasSummary => ir.conflictDetected}

\* totalClaims: the claims of all researched ingredients.
RECURSIVE TotalClaims(_)
TotalClaims(list) ==
    IF list = <<>> THEN 0 ELSE Head(list).claims + TotalClaims(Tail(list))

RECURSIVE SumConfidence(_)
SumConfidence(list) ==
    IF list = <<>> THEN 0 ELSE Head(list).confidenceScore + SumConfidence(Tail(list))

\* The scores are IEEE-754 doubles, added left to right from 0 and divided
\* by their number.  For scores in Confidences and at most MaxIngredientsCap
\* of them the quotient is on the same side of 0.7 as the exact mean, or
\* equal to the double 0.7, with one exception: 1.4 + 0.7 rounds to
\* 2.0999999999999996, and that divided by 3 is 0.6999999999999998.
RoundsBelow(list) ==
    /\ Len(list) = 3
    /\ list[1].confidenceScore + list[2].confidenceScore = 140
    /\ list[3].confidenceScore = 70

\* overallConfidence: the mean of the confidence scores, or 0.5 when nothing
\* was researched.  It is held as the exact fraction num / den and whether
\* the double computed is below it.
OverallConfidence(list) ==
    IF Len(list) > 0
    THEN [num |-> SumConfidence(list), den |-> Len(list), below |-> RoundsBelow(list)]
    ELSE [num |-> 50, den |-> 1, below |-> FALSE]

\* `x >= t` on the double x, for t hundredths.
AtLeast(x, t) == x.num > t * x.den \/ (x.num = t * x.den /\ ~x.below)

determineConsensusStatus(g) ==
    IF Len(g.ingredientResearch) = 0 THEN "INSUFFICIENT_DATA"
    ELSE IF TotalClaims(g.ingredientResearch) < 2 THEN "INSUFFICIENT_DATA"
    ELSE IF Len(g.unresolvedConflicts) > 0 THEN "CONFLICTING_EVIDENCE"
    ELSE IF \E i \in 1..Len(g.ingredientResearch) : g.ingredientResearch[i].conflictDetected
         THEN "CONFLICTING_EVIDENCE"
    ELSE IF AtLeast(g.overallConfidence, ConsensusThreshold) THEN "CLEAR_CONSENSUS"
    ELSE "INSUFFICIENT_DATA"

Min(a, b) == IF a <= b THEN a ELSE b

\* extractTradeOffContexts: one context per ingredient with a detected
\* conflict and at least one claim; its positions are the first 4 claims
\* whose stance is not UNDER_REVIEW.
RECURSIVE TradeOffsFrom(_, _)
TradeOffsFrom(list, index) ==
    IF list = <<>> THEN <<>>
    ELSE LET ir == Head(list)
             rest == TradeOffsFrom(Tail(list), index + 1)
         IN  IF ~ir.conflictDetected \/ ir.claims = 0
             THEN rest
             ELSE <<[ingredient |-> index,
                     positions |-> Min(ir.claims - ir.underReview, MaxPositions)]>> \o rest

extractTradeOffContexts(g) == TradeOffsFrom(g.ingredientResearch, 1)

EmptyGrounded(confidence, warnings) ==
    [ingredientResearch |-> <<>>,
     overallConfidence |-> [num |-> confidence, den |-> 1, below |-> FALSE],
     unresolvedConflicts |-> <<>>, dataQualityWarnings |-> warnings]

NoResearchOut == [consensusStatus |-> None, tradeOffContexts |-> <<>>]

MissingKeyNoWarning == EmptyGrounded(50, 0)

\* What performGroundedResearch returns without a search provider key.
MissingKeyResult == EmptyGrounded(50, 1)

\* researchAgent has called performGroundedResearch with resN ingredients to
\* process.
ResInit ==
    /\ resN \in 0..MaxIngredientsCap
    /\ resPc = "batches"
    /\ grounded = EmptyGrounded(0, 0)
    /\ resOut = NoResearchOut
    /\ resKey \in BOOLEAN
    /\ resSearched = 0

\* EXA_API_KEY is not configured: performGroundedResearch returns at once.
SearchKeyAbsent ==
    /\ resPc = "batches"
    /\ ~resKey
    /\ grounded' = MissingKeyResult
    /\ resPc' = "grounded"
    /\ UNCHANGED <<resN, resOut, resKey, resSearched>>
    /\ UNCHANGED notRes

\* The next ingredient's research is reduced into the result.
IngredientResearched ==
    /\ resPc = "batches"
    /\ resKey
    /\ Len(grounded.ingredientResearch) < resN
    /\ resSearched' = resSearched + 1
    /\ \E ir \in IngredientResearches :
        grounded' =
            [grounded EXCEPT
                !.ingredientResearch = Append(@, ir),
                !.unresolvedConflicts =
                    IF ir.conflictDetected /\ ir.hasSummary
                    THEN Append(@, Len(grounded.ingredientResearch) + 1)
                    ELSE @,
                !.dataQualityWarnings = IF ir.claims = 0 THEN @ + 1 ELSE @]
    /\ UNCHANGED <<resN, resPc, resOut, resKey>>
    /\ UNCHANGED notRes

\* The tail of performGroundedResearch after the loop: the mean confidence,
\* and a warning when more ingredients were sorted than the depth allows
\* (`limited`, possible only when a full depth of 2 or 3 is processed).
FinishGrounded(g, extraWarnings) ==
    /\ \E limited \in BOOLEAN :
        /\ limited => resN \in {2, MaxIngredientsCap}
        /\ grounded' =
              [g EXCEPT
                  !.overallConfidence = OverallConfidence(g.ingredientResearch),
                  !.dataQualityWarnings =
                      @ + extraWarnings + (IF limited THEN 1 ELSE 0)]
    /\ resPc' = "grounded"
    /\ UNCHANGED <<resN, resOut, resKey, resSearched>>

\* performGroundedResearch returns after the last batch.
GroundedReturns ==
    /\ resPc = "batches"
    /\ resKey
    /\ Len(grounded.ingredientResearch) = resN
    /\ FinishGrounded(grounded, 0)
    /\ UNCHANGED notRes

\* The time limit is exceeded at the start of a later batch: the loop
\* breaks with a warning and the ingredients researched so far.
TimeLimitReached ==
    /\ resPc = "batches"
    /\ resKey
    /\ Len(grounded.ingredientResearch) < resN
    /\ Len(grounded.ingredientResearch) > 0
    /\ Len(grounded.ingredientResearch) % BATCH_SIZE = 0
    /\ FinishGrounded(grounded, 1)
    /\ UNCHANGED notRes

\* The research timeout wins the race: the fallback result is used.
ResearchTimesOut ==
    /\ resPc = "batches"
    /\ resKey
    /\ grounded' = EmptyGrounded(30, 1)
    /\ resPc' = "grounded"
    /\ UNCHANGED <<resN, resOut, resKey, resSearched>>
    /\ UNCHANGED notRes

\* researchAgent derives the consensus status and the trade-off contexts.
DeriveConsensus ==
    /\ resPc = "grounded"
    /\ resOut' = [consensusStatus |-> determineConsensusStatus(grounded),
                  tradeOffContexts |-> extractTradeOffContexts(grounded)]
    /\ resPc' = "done"
    /\ UNCHANGED <<resN, grounded, resKey, resSearched>>
    /\ UNCHANGED notRes

ResNext ==
    \/ SearchKeyAbsent
    \/ IngredientResearched
    \/ GroundedReturns
    \/ TimeLimitReached
    \/ ResearchTimesOut
    \/ DeriveConsensus

\* C9: a result with consensusStatus CONFLICTING_EVIDENCE has a non-empty
\* tradeOffContexts.
C9_ConflictHasTradeOffs ==
    resPc = "done" /\ resOut.consensusStatus = "CONFLICTING_EVIDENCE" =>
        Len(resOut.tradeOffContexts) > 0

\* C10: the status is INSUFFICIENT_DATA if no ingredient was researched or
\* there are fewer than 2 claims in all; otherwise CONFLICTING_EVIDENCE if a
\* conflict exists (one recorded as unresolved, or one detected for an
\* ingredient); otherwise CLEAR_CONSENSUS if the mean of the confidence
\* scores is at least 0.7 and INSUFFICIENT_DATA if it is not.
C10_ConsensusStatus ==
    resPc = "done" =>
        LET list == grounded.ingredientResearch
            conflictExists ==
                \/ Len(grounded.unresolvedConflicts) > 0
                \/ \E i \in 1..Len(list) : list[i].conflictDetected
        IN  resOut.consensusStatus =
                IF Len(list) = 0 \/ TotalClaims(list) < 2 THEN "INSUFFICIENT_DATA"
                ELSE IF conflictExists THEN "CONFLICTING_EVIDENCE"
                ELSE IF SumConfidence(list) >= ConsensusThreshold * Len(list)
                     THEN "CLEAR_CONSENSUS"
                ELSE "INSUFFICIENT_DATA"

\* C24: every TradeOffContext returned belongs to an ingredient whose
\* research detected a conflict and that has at least one claim whose stance
\* is not UNDER_REVIEW, and lists between 1 and 4 positions.
C24_TradeOffContexts ==
    resPc = "done" =>
        \A k \in 1..Len(resOut.tradeOffContexts) :
            LET t == resOut.tradeOffContexts[k]
                ir == grounded.ingredientResearch[t.ingredient]
            IN  /\ ir.conflictDetected
                /\ ir.claims - ir.underReview >= 1
                /\ t.positions \in 1..4

\* C21: without a search provider key the grounded research has no
\* ingredientResearch entry, overallConfidence 0.5 and exactly one
\* data-quality warning, no ingredient is searched for, and the consensus
\* status derived from it is INSUFFICIENT_DATA.
C21_MissingKey ==
    ~resKey =>
        /\ resSearched = 0
        /\ resPc \in {"grounded", "done"} =>
              /\ Len(grounded.ingredientResearch) = 0
              /\ grounded.overallConfidence = [num |-> 50, den |-> 1, below |-> FALSE]
              /\ grounded.dataQualityWarnings = 1
        /\ resPc = "done" => resOut.consensusStatus = "INSUFFICIENT_DATA"

\* The research of a non-empty research set has ended without a key.
C21_Witness ==
    /\ ~resKey
    /\ resN > 0
    /\ resPc = "done"
    /\ resOut.consensusStatus = "INSUFFICIENT_DATA"
    /\ grounded.dataQualityWarnings = 1

(***************************************************************************)
(* The vision stage.  One attempt of visionAgent makes the vision model    *)
(* call, then possibly the secondary assessment call, then possibly the    *)
(* failure-message call, and returns a Success or a Failure or throws;     *)
(* withRetry (default options) makes the next attempt after a throw.       *)
(* Confidences are hundredths; Absent stands for a missing or wrongly      *)
(* typed number.                                                            *)
(***************************************************************************)
Absent == -1
HighConfidenceMinIngredients == 3
HighConfidenceAbove == 70
AssessmentDefaultConfidence == 50
FallbackConfidence == 30
FallbackMinIngredients == 2
DefaultQuestions == 3

\* What the vision model call may produce: a transport failure, empty
\* content, text that is not JSON, JSON that RawVisionResponseSchema
\* rejects, or a raw response (ingredients: Absent or the list's length).
PrimaryOutcomes ==
    {[kind |-> k, ingredients |-> Absent, isReadable |-> "absent", confidence |-> Absent] :
        k \in {"transport", "empty", "notJson", "badShape"}}
    \cup {[kind |-> "raw", ingredients |-> n, isReadable |-> r, confidence |-> c] :
            n \in {Absent, 0, 2, 3}, r \in {"true", "false", "absent"},
            c \in {Absent, 50, 90, 150}}

\* What the secondary assessment call may produce: a failure of the call or
\* of parsing its content, or a JSON object with these raw fields.
AssessOutcomes ==
    {[kind |-> k, confidence |-> Absent, isUsable |-> "absent", failureReason |-> "absent"] :
        k \in {"transport", "contentError"}}
    \cup {[kind |-> "parsed", confidence |-> c, isUsable |-> u, failureReason |-> f] :
            c \in {Absent, -20, 60, 150}, u \in {"true", "false", "absent"},
            f \in {"none", "low_confidence", "absent"}}

\* What the failure-message call may produce; message and suggestedQuestions
\* of a parsed object: absent (or falsy), of the right type, or truthy of a
\* wrong type.
PromptOutcomes ==
    {[kind |-> k, message |-> "absent", questions |-> "absent"] :
        k \in {"transport", "contentError"}}
    \cup {[kind |-> "parsed", message |-> m, questions |-> q] :
            m \in {"absent", "string", "nonString"},
            q \in {"absent", "emptyList", "list", "nonList", "listOfNonStrings"}}

Clamp(c) == IF c < 0 THEN 0 ELSE IF c > 100 THEN 100 ELSE c

InUnitRange(c) == c >= 0 /\ c <= 100

IngredientCount(raw) == IF raw.ingredients = Absent THEN 0 ELSE raw.ingredients

isHighConfidence(raw) ==
    /\ raw.isReadable # "false"
    /\ IngredientCount(raw) >= HighConfidenceMinIngredients
    /\ (IF raw.confidence = Absent THEN 0 ELSE raw.confidence) > HighConfidenceAbove

\* assessExtractionWithLLM: the normalised assessment, or the conservative
\* fallback when the call or the parsing failed.
assessExtraction(raw, a) ==
    IF a.kind = "parsed"
    THEN [confidence |-> IF a.confidence = Absent THEN AssessmentDefaultConfidence
                         ELSE Clamp(a.confidence),
          isUsable |-> a.isUsable # "false",
          failureReason |-> IF a.failureReason = "absent" THEN "none" ELSE a.failureReason]
    ELSE [confidence |-> IF raw.confidence = Absent THEN FallbackConfidence
                         ELSE raw.confidence,
          isUsable |-> IngredientCount(raw) >= FallbackMinIngredients
                       /\ raw.isReadable # "false",
          failureReason |-> IF raw.isReadable = "false" THEN "unreadable_text"
                            ELSE IF IngredientCount(raw) = 0 THEN "no_label_detected"
                            ELSE "low_confidence"]

AssessmentOf(raw, a) ==
    IF isHighConfidence(raw)
    THEN [confidence |-> raw.confidence, isUsable |-> TRUE, failureReason |-> "none"]
    ELSE assessExtraction(raw, a)

\* generateConversationPromptWithLLM: the message kind and the
\* suggestedQuestions (a number of strings, or a wrongly typed value).
ConversationPrompt(p) ==
    IF p.kind = "parsed"
    THEN [message |-> IF p.message = "absent" THEN "string" ELSE p.message,
          questions |-> IF p.questions = "absent" THEN "list" ELSE p.questions]
    ELSE [message |-> "string", questions |-> "list"]

QuestionCount(q) == IF q = "list" THEN DefaultQuestions ELSE 0

\* createFailureResult: VisionFailureResultSchema.parse succeeds.
FailureParses(prompt, confidence) ==
    /\ prompt.message = "string"
    /\ prompt.questions \in {"list", "emptyList"}
    /\ InUnitRange(confidence)

NoVisionResult ==
    [status |-> None, ingredients |-> 0, confidence |-> 0, failureReason |-> None,
     suggestedQuestions |-> 0]

VisionSuccess(n, confidence) ==
    [status |-> "success", ingredients |-> n, confidence |-> confidence,
     failureReason |-> None, suggestedQuestions |-> 0]

VisionFailure(reason, confidence, prompt) ==
    [status |-> "vision_failed", ingredients |-> 0, confidence |-> confidence,
     failureReason |-> reason, suggestedQuestions |-> QuestionCount(prompt.questions)]

\* What the body of the try block comes to before any failure result is
\* built: a Success, or the reason and confidence createFailureResult is
\* called with.
Extraction(primary, a) ==
    IF primary.kind # "raw"
    THEN [success |-> FALSE, reason |-> "processing_error", confidence |-> 0, ingredients |-> 0]
    ELSE LET assessment == AssessmentOf(primary, a) IN
         IF ~assessment.isUsable \/ assessment.failureReason # "none"
         THEN [success |-> FALSE,
               reason |-> IF assessment.failureReason = "none" THEN "processing_error"
                          ELSE assessment.failureReason,
               confidence |-> assessment.confidence, ingredients |-> 0]
         ELSE IF primary.ingredients = Absent \/ ~InUnitRange(assessment.confidence)
         THEN [success |-> FALSE, reason |-> "processing_error", confidence |-> 0,
               ingredients |-> 0]
         ELSE [success |-> TRUE, reason |-> None, confidence |-> assessment.confidence,
               ingredients |-> primary.ingredients]

\* The secondary assessment call is made.
Assessed(primary) == primary.kind = "raw" /\ ~isHighConfidence(primary)

VisInit ==
    /\ vAttempt = 0
    /\ vState = "calling"
    /\ vPrimary \in {p \in PrimaryOutcomes : p.kind = "empty"}
    /\ vTransport = FALSE
    /\ vResult = NoVisionResult

\* One attempt of visionAgent.
VisionAttempt ==
    /\ vState = "calling"
    /\ \E primary \in PrimaryOutcomes, a \in AssessOutcomes, p \in PromptOutcomes :
        LET ex == Extraction(primary, a)
            prompt == ConversationPrompt(p)
        IN
        /\ vTransport' = \/ primary.kind = "transport"
                         \/ Assessed(primary) /\ a.kind = "transport"
                         \/ ~ex.success /\ p.kind = "transport"
        /\ \/ /\ ex.success
              /\ vResult' = VisionSuccess(ex.ingredients, ex.confidence)
              /\ vState' = "returned"
              /\ vPrimary' = primary
              /\ UNCHANGED vAttempt
           \/ /\ ~ex.success
              /\ FailureParses(prompt, ex.confidence)
              /\ vResult' = VisionFailure(ex.reason, ex.confidence, prompt)
              /\ vState' = "returned"
              /\ vPrimary' = primary
              /\ UNCHANGED vAttempt
           \/ /\ ~ex.success
              /\ ~FailureParses(prompt, ex.confidence)
              /\ IF vAttempt = DefaultRetries
                 THEN vState' = "thrown" /\ vPrimary' = primary /\ UNCHANGED vAttempt
                 ELSE vAttempt' = vAttempt + 1 /\ UNCHANGED <<vState, vPrimary>>
              /\ UNCHANGED vResult
    /\ UNCHANGED notVis

VisNext == VisionAttempt

\* C12: visionAgent resolves to a Success or a Failure for every content
\* the three models may return; it rejects only when a model call failed at
\* transport level.
C12_VisionNeverThrowsOnContent ==
    /\ vState = "returned" => vResult.status \in {"success", "vision_failed"}
    /\ vState = "thrown" => vTransport

\* C27: the secondary assessment is skipped exactly when the raw response
\* reports readable = true, lists at least 3 ingredients and reports a
\* confidence above 0.7; for every other raw response, one that does not
\* report readability included, it is made.
C27_AssessmentGate ==
    vState = "returned" /\ vPrimary.kind = "raw" =>
        (~Assessed(vPrimary) <=>
            /\ vPrimary.isReadable = "true"
            /\ vPrimary.ingredients # Absent
            /\ vPrimary.ingredients >= 3
            /\ vPrimary.confidence # Absent
            /\ vPrimary.confidence > 70)

(***************************************************************************)
(* Research scheduling.  researchAgent selects the research set;           *)
(* performGroundedResearch sorts it by risk (HIGH and MODERATE scrutiny    *)
(* first), caps it and researches it in batches of BATCH_SIZE concurrent   *)
(* researchIngredient calls; researchAgent races the whole against the     *)
(* research timeout.  An ingredient is its position in the sorted list.    *)
(* A search that answers or errors takes QuickMs, one that hangs takes the *)
(* search timeout.                                                          *)
(***************************************************************************)
MaxScan == 6
MaxListed == 4
MaxDeep == 3
QuickMs == 1000
EXA_TIMEOUT_MS == 15000
RESEARCH_TIMEOUT_MS == 35000
TimeReserveMs == 10000
BATCH_DELAY == 300
MAX_TOTAL_TIME == RESEARCH_TIMEOUT_MS - TimeReserveMs
SmallScanBelow == 5
DeepResearchBelow == 3

\* Claims one successful primary search may yield, and the claims a
\* successful regulatory search adds.
PrimaryClaimCounts == {1, 3}
RegulatoryClaims == 1

SearchOutcomes == {"ok", "error", "timeout"}

SearchMs(o) == IF o = "timeout" THEN EXA_TIMEOUT_MS ELSE QuickMs

\* researchAgent: riskAssessmentData?.ingredientsToResearch || [], plus all
\* ingredients when there is no risk assessment and fewer than 5 of them.
ResearchSetSize(scan, risk) ==
    IF risk # Absent THEN risk
    ELSE IF scan < SmallScanBelow THEN scan ELSE 0

\* getResearchDepth(count, ..).maxIngredients
maxIngredients(count) == IF count <= 2 THEN 2 ELSE MaxIngredientsCap

BatchOfAll(i, n) == n - i

\* ingredientsToProcess.slice(i, i + BATCH_SIZE).length
BatchLength(i, n) == Min(BATCH_SIZE, n - i)

\* riskLevel is HIGH_SCRUTINY or MODERATE_SCRUTINY: these sort first.
needsDeepResearch(ingredient, deep) == ingredient <= deep

NeverWarn(claims) == FALSE

\* `research.claims.length === 0`: the "No external sources" warning.
WarnsNoSources(claims) == claims = 0

\* researchIngredient for one ingredient: the primary search, and the
\* regulatory search when the ingredient needs deep research and fewer than
\* 3 claims were gathered ("none" when it is not issued).  `conflict` is
\* whether the research reports a detected conflict with a summary, which
\* only an analysis that was made can report.
IngredientOutcomes(ingredient, deep) ==
    {[ingredient |-> ingredient, primary |-> t[1], secondary |-> t[3],
      claims |-> t[2] + (IF t[3] = "ok" THEN RegulatoryClaims ELSE 0),
      conflict |-> t[4],
      duration |-> SearchMs(t[1]) + (IF t[3] = "none" THEN 0 ELSE SearchMs(t[3]))] :
        t \in {u \in SearchOutcomes \X (PrimaryClaimCounts \cup {0})
                     \X (SearchOutcomes \cup {"none"}) \X BOOLEAN :
                 /\ u[1] = "ok" <=> u[2] # 0
                 /\ u[3] # "none" <=>
                       needsDeepResearch(ingredient, deep) /\ u[2] < DeepResearchBelow
                 /\ u[4] => u[1] = "ok" \/ u[3] = "ok"}}

RECURSIVE MaxDuration(_)
MaxDuration(outcomes) ==
    IF outcomes = {} THEN 0
    ELSE LET o == CHOOSE x \in outcomes : TRUE
             rest == MaxDuration(outcomes \ {o})
         IN  IF o.duration > rest THEN o.duration ELSE rest

RECURSIVE InReverseOrder(_)
InReverseOrder(outcomes) ==
    IF outcomes = {} THEN <<>>
    ELSE LET first == CHOOSE x \in outcomes :
                          \A y \in outcomes : x.ingredient >= y.ingredient
         IN  <<first>> \o InReverseOrder(outcomes \ {first})

\* The settled researches of a batch, in ingredient order.
RECURSIVE InIngredientOrder(_)
InIngredientOrder(outcomes) ==
    IF outcomes = {} THEN <<>>
    ELSE LET first == CHOOSE x \in outcomes :
                          \A y \in outcomes : x.ingredient <= y.ingredient
         IN  <<first>> \o InIngredientOrder(outcomes \ {first})

\* The warnings pushed while reducing `list`: "No external sources found"
\* for each research without claims.
RECURSIVE NoSourcesWarnings(_)
NoSourcesWarnings(list) ==
    IF list = <<>> THEN <<>>
    ELSE (IF WarnsNoSources(Head(list).claims)
          THEN <<[kind |-> "noSources", ingredient |-> Head(list).ingredient,
                  of |-> 0]>>
          ELSE <<>>) \o NoSourcesWarnings(Tail(list))

\* The unresolvedConflicts entries pushed while reducing `list`.
RECURSIVE ConflictsOf(_)
ConflictsOf(list) ==
    IF list = <<>> THEN <<>>
    ELSE (IF Head(list).conflict THEN <<Head(list).ingredient>> ELSE <<>>)
             \o ConflictsOf(Tail(list))

\* "Research time limit reached - analyzed i of n ingredients"
TimeLimitWarning(i, n) == [kind |-> "timeLimit", ingredient |-> i, of |-> n]

\* "Research limited to maxIngredients of n controversial ingredients",
\* pushed before the return when the sorted set was longer than the cap.
LimitedWarnings(n) ==
    IF n > maxIngredients(n)
    THEN <<[kind |-> "limited", ingredient |-> maxIngredients(n), of |-> n]>>
    ELSE <<>>

\* The ingredients a "No external sources" warning was pushed for.
bWarned ==
    {bWarnings[k].ingredient :
        k \in {j \in 1..Len(bWarnings) : bWarnings[j].kind = "noSources"}}

BatchInit ==
    /\ selScan \in 0..MaxScan
    /\ selRisk \in {Absent} \cup 0..MaxListed
    /\ selDeep \in 0..MaxDeep
    /\ selDeep <= ResearchSetSize(selScan, selRisk)
    /\ selRisk = Absent => selDeep = 0
    /\ bpc = "select"
    /\ bSetSize = 0
    /\ bProcN = 0
    /\ bIndex = 0
    /\ bRunning = {}
    /\ bSettled = {}
    /\ bRecords = <<>>
    /\ bWarnings = <<>>
    /\ bConflicts = <<>>
    /\ bElapsed = 0
    /\ bBatches = <<>>
    /\ bStopped = FALSE
    /\ bResult = None

\* researchAgent selects the research set.
SelectResearchSet ==
    /\ bpc = "select"
    /\ bSetSize' = ResearchSetSize(selScan, selRisk)
    /\ bpc' = "sort"
    /\ UNCHANGED <<selScan, selRisk, selDeep, bProcN, bIndex, bRunning, bSettled,
                   bRecords, bWarnings, bConflicts, bElapsed, bBatches, bStopped,
                   bResult>>
    /\ UNCHANGED notBatch

\* performGroundedResearch sorts and caps the set and takes startTime.
SortAndCap ==
    /\ bpc = "sort"
    /\ bProcN' = Min(bSetSize, maxIngredients(bSetSize))
    /\ bpc' = "loop"
    /\ UNCHANGED <<selScan, selRisk, selDeep, bSetSize, bIndex, bRunning, bSettled,
                   bRecords, bWarnings, bConflicts, bElapsed, bBatches, bStopped,
                   bResult>>
    /\ UNCHANGED notBatch

\* The loop body starts a batch: its researches are issued together.
BatchStarts ==
    /\ bpc = "loop"
    /\ bIndex < bProcN
    /\ bElapsed <= MAX_TOTAL_TIME
    /\ bRunning' = (bIndex + 1)..(bIndex + BatchLength(bIndex, bProcN))
    /\ bBatches' = Append(bBatches, BatchLength(bIndex, bProcN))
    /\ bpc' = "batch"
    /\ UNCHANGED <<selScan, selRisk, selDeep, bSetSize, bProcN, bIndex, bSettled,
                   bRecords, bWarnings, bConflicts, bElapsed, bStopped, bResult>>
    /\ UNCHANGED notBatch

\* One research of the batch in flight settles (researchIngredient catches
\* its search errors and always fulfils).
MemberSettles ==
    /\ bpc = "batch"
    /\ \E m \in bRunning :
        \E o \in IngredientOutcomes(m, selDeep) :
            /\ bRunning' = bRunning \ {m}
            /\ bSettled' = bSettled \cup {o}
    /\ UNCHANGED <<selScan, selRisk, selDeep, bpc, bSetSize, bProcN, bIndex, bRecords,
                   bWarnings, bConflicts, bElapsed, bBatches, bStopped, bResult>>
    /\ UNCHANGED notBatch

\* Promise.allSettled resolves: the results are pushed in ingredient order,
\* the warnings added, and the inter-batch delay awaited when another batch
\* follows within the time limit.
BatchSettles ==
    /\ bpc = "batch"
    /\ bRunning = {}
    /\ LET after == bElapsed + MaxDuration(bSettled)
           delay == IF bIndex + BATCH_SIZE < bProcN /\ after < MAX_TOTAL_TIME
                    THEN BATCH_DELAY ELSE 0
       IN  /\ bRecords' = bRecords \o InIngredientOrder(bSettled)
           /\ bWarnings' = bWarnings \o NoSourcesWarnings(InIngredientOrder(bSettled))
           /\ bConflicts' = bConflicts \o ConflictsOf(InIngredientOrder(bSettled))
           /\ bElapsed' = after + delay
    /\ bSettled' = {}
    /\ bIndex' = bIndex + BATCH_SIZE
    /\ bpc' = "loop"
    /\ UNCHANGED <<selScan, selRisk, selDeep, bSetSize, bProcN, bRunning, bBatches,
                   bStopped, bResult>>
    /\ UNCHANGED notBatch

\* researchAgent's race: the grounded result when performGroundedResearch
\* returned within the research timeout, the fallback otherwise.
RaceSettled(elapsed) == IF elapsed > RESEARCH_TIMEOUT_MS THEN "fallback" ELSE "grounded"

\* The time limit is exceeded at the top of the loop: break, then return.
TimeLimitStops ==
    /\ bpc = "loop"
    /\ bIndex < bProcN
    /\ bElapsed > MAX_TOTAL_TIME
    /\ bStopped' = TRUE
    /\ bWarnings' = Append(bWarnings, TimeLimitWarning(bIndex, bProcN))
                        \o LimitedWarnings(bSetSize)
    /\ bResult' = RaceSettled(bElapsed)
    /\ bpc' = "returned"
    /\ UNCHANGED <<selScan, selRisk, selDeep, bSetSize, bProcN, bIndex, bRunning,
                   bSettled, bRecords, bConflicts, bElapsed, bBatches>>
    /\ UNCHANGED notBatch

\* The loop ends and performGroundedResearch returns.
LoopEnds ==
    /\ bpc = "loop"
    /\ bIndex >= bProcN
    /\ bWarnings' = bWarnings \o LimitedWarnings(bSetSize)
    /\ bResult' = RaceSettled(bElapsed)
    /\ bpc' = "returned"
    /\ UNCHANGED <<selScan, selRisk, selDeep, bSetSize, bProcN, bIndex, bRunning,
                   bSettled, bRecords, bConflicts, bElapsed, bBatches, bStopped>>
    /\ UNCHANGED notBatch

BatchNext ==
    \/ SelectResearchSet
    \/ SortAndCap
    \/ BatchStarts
    \/ MemberSettles
    \/ BatchSettles
    \/ TimeLimitStops
    \/ LoopEnds

\* Every search issued for the ingredient failed.
AllSearchesFailed(r) == r.primary # "ok" /\ r.secondary # "ok"

BatchesInOrder ==
    /\ \A j \in 1..Len(bBatches) : bBatches[j] >= 1 /\ bBatches[j] <= BATCH_SIZE
    /\ bRunning \subseteq (bIndex + 1)..(bIndex + BATCH_SIZE)
    /\ bRunning # {} => bpc = "batch"
    /\ bpc = "batch" =>
          /\ Len(bRecords) = bIndex
          /\ bRunning \cup {o.ingredient : o \in bSettled}
                = (bIndex + 1)..(bIndex + bBatches[Len(bBatches)])

\* C17 as stated: batches of at most 2, one after the other, and exactly
\* the batches 2 and 1 for 3 selected ingredients.
C17_Original ==
    /\ BatchesInOrder
    /\ bpc = "returned" /\ bProcN = 3 => bBatches = <<2, 1>>

\* C17 amended: the same, except that the second batch is left out when the
\* time limit was exceeded after the first.
C17_Batches ==
    /\ BatchesInOrder
    /\ bpc = "returned" /\ bProcN = 3 =>
          \/ bBatches = <<2, 1>> /\ ~bStopped
          \/ bBatches = <<2>> /\ bStopped /\ bElapsed > MAX_TOTAL_TIME

C17_Witness ==
    /\ bpc = "returned"
    /\ bProcN = 3
    /\ bBatches = <<2, 1>>
    /\ Len(bRecords) = 3
    /\ ~bStopped

\* The "time limit reached" warnings recorded.
TimeLimitWarnings ==
    SelectSeq(bWarnings, LAMBDA w : w.kind = "timeLimit")

InSortedOrder(seq) == \A a, b \in 1..Len(seq) : a < b => seq[a] < seq[b]

\* C26: ingredientResearch is in the order of the sorted ingredient list,
\* whichever research of a batch finished first, and so are the
\* unresolved-conflict entries and the per-ingredient warnings, which are
\* those of the recorded researches.
C26_ResultOrder ==
    /\ InSortedOrder([k \in 1..Len(bRecords) |-> bRecords[k].ingredient])
    /\ InSortedOrder(bConflicts)
    /\ bConflicts = ConflictsOf(bRecords)
    /\ LET perIngredient == SelectSeq(bWarnings, LAMBDA w : w.kind = "noSources")
       IN  /\ InSortedOrder([k \in 1..Len(perIngredient) |->
                                 perIngredient[k].ingredient])
           /\ {perIngredient[k].ingredient : k \in 1..Len(perIngredient)}
                 = {bRecords[k].ingredient :
                       k \in {j \in 1..Len(bRecords) : bRecords[j].claims = 0}}

\* The second research of the first batch finished long before the first
\* (whose search timed out); both are recorded, first before second, and so
\* are the conflict entries of the second and third ingredient.
C26_Witness ==
    /\ bpc = "returned"
    /\ Len(bRecords) = 3
    /\ bRecords[1].duration > bRecords[2].duration
    /\ bRecords[1].ingredient = 1
    /\ bRecords[2].ingredient = 2
    /\ bConflicts = <<2, 3>>
    /\ 1 \in bWarned

\* C18: the research set is the risk assessment's ingredientsToResearch
\* when there is one; without one it is all ingredients for a scan of at
\* most 5 ingredients and empty for a larger scan.
C18_ResearchSet ==
    bpc # "select" =>
        bSetSize = IF selRisk # Absent THEN selRisk
                   ELSE IF selScan <= 5 THEN selScan ELSE 0

(***************************************************************************)
(* Risk ordering.  performGroundedResearch sorts ingredientsToResearch by   *)
(* descending risk priority, keeps the first maxIngredients and researches *)
(* them batch by batch.  An ingredient is its index in                      *)
(* ingredientsToResearch; when the time limit stops the loop is decided in *)
(* the scheduling model above and is left open here.  researchAgent runs   *)
(* all of it, and then its final analysis call, inside one withRetry       *)
(* (default options).                                                       *)
(***************************************************************************)
MaxSet == 4

\* riskAssessments.get(ingredient)?.riskLevel; "unassessed" for an ingredient
\* the risk assessment has no details for.
RiskLevels == {"HIGH_SCRUTINY", "MODERATE_SCRUTINY", "STANDARD_REVIEW",
               "GENERALLY_RECOGNIZED_SAFE", "unassessed"}

StandardReviewPriority == 1

\* riskPriority[riskLevel || "STANDARD_REVIEW"]
riskPriority(level) ==
    CASE level = "HIGH_SCRUTINY" -> 3
      [] level = "MODERATE_SCRUTINY" -> 2
      [] level = "STANDARD_REVIEW" -> StandardReviewPriority
      [] level = "GENERALLY_RECOGNIZED_SAFE" -> 0
      [] OTHER -> StandardReviewPriority

\* The indices of `levels`, in order, whose priority is p.
IndicesAt(levels, p) ==
    SelectSeq([i \in 1..Len(levels) |-> i], LAMBDA i : riskPriority(levels[i]) = p)

Unsorted(levels) == [i \in 1..Len(levels) |-> i]

\* [...ingredientsToResearch].sort((a, b) => riskPriority[b] - riskPriority[a]):
\* Array.prototype.sort is stable, so ingredients of one priority keep their
\* order.
sortedIngredients(levels) ==
    IndicesAt(levels, 3) \o IndicesAt(levels, 2) \o IndicesAt(levels, 1)
        \o IndicesAt(levels, 0)

\* sortedIngredients.slice(0, maxIngredients)
ingredientsToProcess(sorted) ==
    SubSeq(sorted, 1, Min(Len(sorted), maxIngredients(Len(sorted))))

SortInit ==
    /\ srtLevels \in UNION {[1..n -> RiskLevels] : n \in 0..MaxSet}
    /\ srtPc = "sort"
    /\ srtSorted = <<>>
    /\ srtProcess = <<>>
    /\ srtDone = 0
    /\ srtStopped = FALSE
    /\ srtAttempt = 0
    /\ srtEarlier = {}

SortIngredients ==
    /\ srtPc = "sort"
    /\ srtSorted' = sortedIngredients(srtLevels)
    /\ srtPc' = "cap"
    /\ UNCHANGED <<srtLevels, srtProcess, srtDone, srtStopped, srtAttempt, srtEarlier>>
    /\ UNCHANGED notSort

CapIngredients ==
    /\ srtPc = "cap"
    /\ srtProcess' = ingredientsToProcess(srtSorted)
    /\ srtPc' = "loop"
    /\ UNCHANGED <<srtLevels, srtSorted, srtDone, srtStopped, srtAttempt, srtEarlier>>
    /\ UNCHANGED notSort

\* One iteration of the batch loop: the next batch is researched.
BatchResearched ==
    /\ srtPc = "loop"
    /\ srtDone < Len(srtProcess)
    /\ srtDone' = srtDone + BatchLength(srtDone, Len(srtProcess))
    /\ UNCHANGED <<srtLevels, srtPc, srtSorted, srtProcess, srtStopped, srtAttempt, srtEarlier>>
    /\ UNCHANGED notSort

\* The time limit is found exceeded at the top of a later iteration.
SortedLoopBreaks ==
    /\ srtPc = "loop"
    /\ srtDone > 0
    /\ srtDone < Len(srtProcess)
    /\ srtStopped' = TRUE
    /\ srtPc' = "returned"
    /\ UNCHANGED <<srtLevels, srtSorted, srtProcess, srtDone, srtAttempt, srtEarlier>>
    /\ UNCHANGED notSort

SortedLoopEnds ==
    /\ srtPc = "loop"
    /\ srtDone = Len(srtProcess)
    /\ srtPc' = "returned"
    /\ UNCHANGED <<srtLevels, srtSorted, srtProcess, srtDone, srtStopped, srtAttempt, srtEarlier>>
    /\ UNCHANGED notSort

\* The ingredients researched: the first srtDone of ingredientsToProcess.
Researched == {srtProcess[k] : k \in 1..srtDone}

\* researchAgent's final analysis call resolves and the result is returned.
AnalysisReturns ==
    /\ srtPc = "returned"
    /\ srtPc' = "done"
    /\ UNCHANGED <<srtLevels, srtSorted, srtProcess, srtDone, srtStopped, srtAttempt,
                   srtEarlier>>
    /\ UNCHANGED notSort

\* The final analysis call rejects with an error defaultRetryOn accepts:
\* the rejection leaves the body, and withRetry runs the body again from
\* its first statement, or rethrows after the last attempt.
AnalysisFails ==
    /\ srtPc = "returned"
    /\ IF srtAttempt = DefaultRetries
       THEN /\ srtPc' = "thrown"
            /\ UNCHANGED <<srtSorted, srtProcess, srtDone, srtStopped, srtAttempt,
                           srtEarlier>>
       ELSE /\ srtAttempt' = srtAttempt + 1
            /\ srtEarlier' = srtEarlier \cup Researched
            /\ srtSorted' = <<>>
            /\ srtProcess' = <<>>
            /\ srtDone' = 0
            /\ srtStopped' = FALSE
            /\ srtPc' = "sort"
    /\ UNCHANGED srtLevels
    /\ UNCHANGED notSort

SortNext ==
    \/ SortIngredients
    \/ CapIngredients
    \/ BatchResearched
    \/ SortedLoopBreaks
    \/ SortedLoopEnds
    \/ AnalysisReturns
    \/ AnalysisFails

\* The researched ingredients are a prefix of the research set in
\* descending priority: the sorted list is a permutation of the set in
\* non-increasing priority, and no skipped ingredient has a strictly higher
\* priority than a researched one.
ResearchedByPriority ==
    /\ Len(srtSorted) = Len(srtLevels)
    /\ {srtSorted[k] : k \in 1..Len(srtSorted)} = 1..Len(srtLevels)
    /\ \A a, b \in 1..Len(srtSorted) :
          a < b => riskPriority(srtLevels[srtSorted[a]])
                      >= riskPriority(srtLevels[srtSorted[b]])
    /\ \A k \in 1..srtDone : srtProcess[k] = srtSorted[k]
    /\ \A i \in Researched : \A j \in (1..Len(srtLevels)) \ Researched :
          riskPriority(srtLevels[j]) <= riskPriority(srtLevels[i])

\* C22 as stated: at the return the researched ingredients are that prefix
\* and their number is the cap for the count (the whole set when it is
\* smaller than the cap): 2 for at most 2 selected, otherwise 3 or 4.
C22_Original ==
    srtPc = "returned" =>
        /\ ResearchedByPriority
        /\ IF Len(srtLevels) <= 2
           THEN srtDone = Len(srtLevels)
           ELSE srtDone \in 3..4 /\ srtDone <= Len(srtLevels)

\* C22 amended: the same, except that when the time limit stops the loop
\* only the batches already researched, a shorter prefix, are researched.
C22_SortedPrefix ==
    srtPc = "returned" =>
        /\ ResearchedByPriority
        /\ IF srtStopped
           THEN srtDone > 0 /\ srtDone % BATCH_SIZE = 0 /\ srtDone < Len(srtProcess)
           ELSE IF Len(srtLevels) <= 2
                THEN srtDone = Len(srtLevels)
                ELSE srtDone \in 3..4 /\ srtDone <= Len(srtLevels)

\* Four ingredients given in ascending priority: the first given, of the
\* lowest priority, is the one left out.
C22_Witness ==
    /\ srtPc = "returned"
    /\ ~srtStopped
    /\ Len(srtLevels) = 4
    /\ srtLevels[1] = "GENERALLY_RECOGNIZED_SAFE"
    /\ srtLevels[4] = "HIGH_SCRUTINY"
    /\ srtDone = 3
    /\ 1 \notin Researched
    /\ srtProcess[1] = 4

\* C29: when the final analysis call of the research stage fails with a
\* retryable error only that call is made again: no ingredient researched
\* earlier in the request is researched again.
C29_OnlyFailedCallRetried ==
    Researched \cap srtEarlier = {}

(***************************************************************************)
(* One ingredient's research.  researchIngredient issues the primary       *)
(* search and analyses its results, then, for an ingredient under high or  *)
(* moderate scrutiny with fewer than 3 claims, the regulatory search and   *)
(* its analysis.  A conflict verdict is whether a conflict was detected,   *)
(* its confidence in hundredths and whether it has a summary (the type     *)
(* goes with the summary); a claim is counted only.                         *)
(***************************************************************************)
\* getResearchDepth asks for at most 4 results per ingredient; the
\* regulatory search asks for 2.
MaxPrimaryResults == 4
RegulatoryResults == 2

AssessedRiskLevels == {"HIGH_SCRUTINY", "MODERATE_SCRUTINY", "STANDARD_REVIEW",
                       "GENERALLY_RECOGNIZED_SAFE"}

\* needsDeepResearch: riskLevel is HIGH_SCRUTINY or MODERATE_SCRUTINY.
DeepResearchLevels == {"HIGH_SCRUTINY", "MODERATE_SCRUTINY"}

\* conflictResult before any analysis.
InitialVerdict == [detected |-> FALSE, confidence |-> 0, summary |-> TRUE]

\* analyzeResearchWithLLM without results, and when the model call or the
\* parsing of its answer fails.
NoResultsAnalysis == [claims |-> 0,
                      conflict |-> [detected |-> FALSE, confidence |-> 0, summary |-> FALSE]]

FailedAnalysis == [claims |-> 0,
                   conflict |-> [detected |-> FALSE, confidence |-> 30, summary |-> FALSE]]

\* analyzeResearchWithLLM(results): no result gives the fixed empty
\* analysis; otherwise at most one claim per result and the verdict the
\* model reported, or the fixed analysis of a failure.
AnalysesOf(results) ==
    IF results = 0 THEN {NoResultsAnalysis}
    ELSE {FailedAnalysis} \cup
         [claims : 0..results,
          conflict : [detected : BOOLEAN, confidence : {50, 90}, summary : BOOLEAN]]

KeepPrimaryVerdict(primary, secondary) == primary

\* conflictResult = secondaryAnalysis.conflict
SupersededVerdict(primary, secondary) == secondary

IngInit ==
    /\ ingRisk \in AssessedRiskLevels
    /\ ingPc = "primary"
    /\ ingSearches = 0
    /\ ingPrimaryClaims = 0
    /\ ingClaims = 0
    /\ ingPrimary = {}
    /\ ingSecondary = {}
    /\ ingVerdict = InitialVerdict

\* The primary search answers in time and its results are analysed.
PrimarySearched ==
    /\ ingPc = "primary"
    /\ ingSearches' = ingSearches + 1
    /\ \E results \in 0..MaxPrimaryResults : \E a \in AnalysesOf(results) :
        /\ ingPrimaryClaims' = a.claims
        /\ ingClaims' = ingClaims + a.claims
        /\ ingPrimary' = {a.conflict}
        /\ ingVerdict' = a.conflict
    /\ ingPc' = "decide"
    /\ UNCHANGED <<ingRisk, ingSecondary>>
    /\ UNCHANGED notIng

\* The primary search rejects or loses its timeout race: the error is
\* recorded and the research goes on.
PrimaryFailed ==
    /\ ingPc = "primary"
    /\ ingSearches' = ingSearches + 1
    /\ ingPc' = "decide"
    /\ UNCHANGED <<ingRisk, ingPrimaryClaims, ingClaims, ingPrimary, ingSecondary,
                   ingVerdict>>
    /\ UNCHANGED notIng

\* if (needsDeepResearch && allClaims.length < 3)
RegulatoryDue == ingRisk \in DeepResearchLevels /\ ingClaims < DeepResearchBelow

\* The regulatory search answers in time and its results are analysed.
RegulatorySearched ==
    /\ ingPc = "decide"
    /\ RegulatoryDue
    /\ ingSearches' = ingSearches + 1
    /\ \E results \in 0..RegulatoryResults : \E a \in AnalysesOf(results) :
        /\ ingClaims' = ingClaims + a.claims
        /\ ingSecondary' = {a.conflict}
        /\ ingVerdict' = SupersededVerdict(ingVerdict, a.conflict)
    /\ ingPc' = "regulatory"
    /\ UNCHANGED <<ingRisk, ingPrimaryClaims, ingPrimary>>
    /\ UNCHANGED notIng

RegulatoryFailed ==
    /\ ingPc = "decide"
    /\ RegulatoryDue
    /\ ingSearches' = ingSearches + 1
    /\ ingPc' = "regulatory"
    /\ UNCHANGED <<ingRisk, ingPrimaryClaims, ingClaims, ingPrimary, ingSecondary,
                   ingVerdict>>
    /\ UNCHANGED notIng

IngredientReturns ==
    /\ \/ ingPc = "decide" /\ ~RegulatoryDue
       \/ ingPc = "regulatory"
    /\ ingPc' = "returned"
    /\ UNCHANGED <<ingRisk, ingSearches, ingPrimaryClaims, ingClaims, ingPrimary,
                   ingSecondary, ingVerdict>>
    /\ UNCHANGED notIng

IngNext ==
    \/ PrimarySearched
    \/ PrimaryFailed
    \/ RegulatorySearched
    \/ RegulatoryFailed
    \/ IngredientReturns

\* C23: at most two searches are issued for an ingredient; the second, the
\* regulatory one, is issued exactly for an ingredient under high or
\* moderate scrutiny for which the primary query gathered fewer than 3
\* claims; when it was issued and completed, the verdict returned is the
\* secondary analysis' verdict.
C23_RegulatoryQuery ==
    /\ ingSearches <= 2
    /\ ingPc = "returned" =>
          /\ ingSearches = 2 <=>
                (ingRisk \in {"HIGH_SCRUTINY", "MODERATE_SCRUTINY"}
                    /\ ingPrimaryClaims < 3)
          /\ ingSearches # 2 => ingSearches = 1 /\ ingSecondary = {}
          /\ ingSecondary # {} => ingVerdict \in ingSecondary

\* Both analyses were made, with different verdicts, and the secondary one
\* is returned.
C23_Witness ==
    /\ ingPc = "returned"
    /\ ingSearches = 2
    /\ ingPrimary # {}
    /\ ingSecondary # {}
    /\ ingPrimary # ingSecondary
    /\ \E v \in ingPrimary : v.detected
    /\ ingVerdict \in ingSecondary

(***************************************************************************)
(* The intent stage.  One attempt of intentInference validates the         *)
(* history, calls the model and returns the default profile (no content),  *)
(* the parsed profile or the fallback profile (content that does not       *)
(* parse or does not fit the schema), or it throws and withRetry (default  *)
(* options) makes the next attempt.  Of a history entry only whether its   *)
(* productName is non-empty is kept; of the model's JSON object, the       *)
(* fields the result is built from.                                         *)
(***************************************************************************)
MaxHistory == 6

\* extractHistoryPatterns reads the first 5 entries.
HistoryWindow == 5

Histories == UNION {[1..n -> BOOLEAN] : n \in 0..MaxHistory}

\* recentProducts.length > 0: one of the first 5 entries has a productName.
hasHistory(history) ==
    \E k \in 1..Min(Len(history), HistoryWindow) : history[k]

\* What the model call may produce: a transport failure that is retried or
\* one that is not, no content, text that is not JSON, JSON that is not an
\* object, or an object with these fields (persona: absent, a string or a
\* truthy non-string; confidence: absent or a string; riskAssessment:
\* absent, of the schema's shape or not).
IntentContents ==
    {[kind |-> k, persona |-> "absent", confidence |-> "absent", riskAssessment |-> "absent"] :
        k \in {"transport", "rejected", "empty", "notJson", "notObject"}}
    \cup {[kind |-> "object", persona |-> pe, confidence |-> c, riskAssessment |-> ra] :
            pe \in {"absent", "string", "nonString"},
            c \in {"absent", "low", "medium", "high", "very high"},
            ra \in {"absent", "valid", "invalid"}}

NoIntentContent ==
    [kind |-> "empty", persona |-> "absent", confidence |-> "absent",
     riskAssessment |-> "absent"]

NoIntentResult ==
    [confidence |-> None, historyInfluenced |-> FALSE, riskAssessment |-> FALSE]

\* The profile returned without content and on the catch path.
LowConfidenceProfile ==
    [confidence |-> "low", historyInfluenced |-> FALSE, riskAssessment |-> FALSE]

HistoryAlone(history, confidence) == hasHistory(history)

\* historyInfluenced: hasHistory && parsed.confidence !== "low"
historyInfluenced(history, confidence) == hasHistory(history) /\ confidence # "low"

\* The object handed to IntentInferenceResultSchema.parse on the parsed path.
ParsedProfile(history, content) ==
    [persona |-> IF content.persona = "absent" THEN "string" ELSE content.persona,
     confidence |-> IF content.confidence = "absent" THEN "medium" ELSE content.confidence,
     historyInfluenced |-> historyInfluenced(history, content.confidence),
     riskAssessment |-> content.riskAssessment]

\* IntentInferenceResultSchema accepts the object.
ProfileParses(profile) ==
    /\ profile.persona = "string"
    /\ profile.confidence \in {"high", "medium", "low"}
    /\ profile.riskAssessment # "invalid"

IntInit ==
    /\ intHistory \in Histories
    /\ intAttempt = 0
    /\ intState = "calling"
    /\ intContent = NoIntentContent
    /\ intPath = None
    /\ intResult = NoIntentResult

\* One attempt of intentInference.
IntentAttempt ==
    /\ intState = "calling"
    /\ \E content \in IntentContents :
        LET profile == ParsedProfile(intHistory, content) IN
        \/ /\ content.kind = "transport"
           /\ IF intAttempt = DefaultRetries
              THEN intState' = "thrown" /\ intContent' = content /\ UNCHANGED intAttempt
              ELSE intAttempt' = intAttempt + 1 /\ UNCHANGED <<intState, intContent>>
           /\ UNCHANGED <<intPath, intResult>>
        \/ /\ content.kind = "rejected"
           /\ intState' = "thrown"
           /\ intContent' = content
           /\ UNCHANGED <<intAttempt, intPath, intResult>>
        \/ /\ content.kind = "empty"
           /\ intResult' = LowConfidenceProfile
           /\ intPath' = "default"
           /\ intState' = "returned"
           /\ intContent' = content
           /\ UNCHANGED intAttempt
        \/ /\ content.kind = "object"
           /\ ProfileParses(profile)
           /\ intResult' = [confidence |-> profile.confidence,
                            historyInfluenced |-> profile.historyInfluenced,
                            riskAssessment |-> profile.riskAssessment = "valid"]
           /\ intPath' = "parsed"
           /\ intState' = "returned"
           /\ intContent' = content
           /\ UNCHANGED intAttempt
        \/ /\ \/ content.kind \in {"notJson", "notObject"}
              \/ content.kind = "object" /\ ~ProfileParses(profile)
           /\ intResult' = LowConfidenceProfile
           /\ intPath' = "fallback"
           /\ intState' = "returned"
           /\ intContent' = content
           /\ UNCHANGED intAttempt
    /\ UNCHANGED intHistory
    /\ UNCHANGED notInt

IntNext == IntentAttempt

PipeIdle ==
    /\ req = [image |-> TRUE, barcode |-> FALSE, sessionId |-> FALSE]
    /\ pc = "settled"
    /\ ingredients = 0
    /\ started = <<>>
    /\ returned = <<>>
    /\ intentOut = {}
    /\ researchArgs = {}
    /\ researchOut = {}
    /\ uiArgs = {}
    /\ jobResult = "pending"
    /\ timerFired = TRUE
    /\ firstSettled = None
    /\ response = None
    /\ handler = "allSettled"
    /\ failureBody = {}
    /\ histWrite = "none"
    /\ scanWrite = "none"

LimIdle ==
    /\ now = 0
    /\ lastRequestTime = 0
    /\ lpc = [c \in Callers |-> "dispatched"]
    /\ wakeAt = [c \in Callers |-> 0]
    /\ arrivals = <<>>
    /\ dispatches = <<>>

RetryIdle ==
    /\ rRetries = 0
    /\ rAttempt = 0
    /\ rState = "returned"
    /\ rLastError = NoError
    /\ rWait = 0
    /\ rOutcome = [kind |-> "pending", value |-> "", error |-> NoError]
    /\ rCalls = 0
    /\ rWaits = 0
    /\ rAttemptErr = NoError
    /\ rAllRetryable = TRUE

UIIdle ==
    /\ uiAttempt = 0
    /\ uiState = "returned"
    /\ uiPath = None
    /\ uiResult = NoResult

ResIdle ==
    /\ resN = 0
    /\ resPc = "done"
    /\ grounded = EmptyGrounded(0, 0)
    /\ resOut = NoResearchOut
    /\ resKey = TRUE
    /\ resSearched = 0

VisIdle ==
    /\ vAttempt = 0
    /\ vState = "returned"
    /\ vPrimary = [kind |-> "empty", ingredients |-> Absent, isReadable |-> "absent",
                   confidence |-> Absent]
    /\ vTransport = FALSE
    /\ vResult = NoVisionResult

BatchIdle ==
    /\ selScan = 0
    /\ selRisk = Absent
    /\ selDeep = 0
    /\ bpc = "returned"
    /\ bSetSize = 0
    /\ bProcN = 0
    /\ bIndex = 0
    /\ bRunning = {}
    /\ bSettled = {}
    /\ bRecords = <<>>
    /\ bWarnings = <<>>
    /\ bConflicts = <<>>
    /\ bElapsed = 0
    /\ bBatches = <<>>
    /\ bStopped = FALSE
    /\ bResult = None

SortIdle ==
    /\ srtLevels = <<>>
    /\ srtPc = "returned"
    /\ srtSorted = <<>>
    /\ srtProcess = <<>>
    /\ srtDone = 0
    /\ srtStopped = FALSE
    /\ srtAttempt = 0
    /\ srtEarlier = {}

IngIdle ==
    /\ ingRisk = "STANDARD_REVIEW"
    /\ ingPc = "returned"
    /\ ingSearches = 0
    /\ ingPrimaryClaims = 0
    /\ ingClaims = 0
    /\ ingPrimary = {}
    /\ ingSecondary = {}
    /\ ingVerdict = InitialVerdict

IntIdle ==
    /\ intHistory = <<>>
    /\ intAttempt = 0
    /\ intState = "returned"
    /\ intContent = NoIntentContent
    /\ intPath = None
    /\ intResult = NoIntentResult

Init ==
    /\ PipeInit
    /\ LimIdle
    /\ RetryIdle
    /\ UIIdle
    /\ ResIdle
    /\ VisIdle
    /\ BatchIdle
    /\ SortIdle
    /\ IngIdle
    /\ IntIdle

Next == PipeNext

Spec == Init /\ [][Next]_vars

InitLimiter ==
    /\ LimInit
    /\ PipeIdle
    /\ RetryIdle
    /\ UIIdle
    /\ ResIdle
    /\ VisIdle
    /\ BatchIdle
    /\ SortIdle
    /\ IngIdle
    /\ IntIdle

NextLimiter == LimNext

SpecLimiter == InitLimiter /\ [][NextLimiter]_vars

InitRetry ==
    /\ RetryInit
    /\ PipeIdle
    /\ LimIdle
    /\ UIIdle
    /\ ResIdle
    /\ VisIdle
    /\ BatchIdle
    /\ SortIdle
    /\ IngIdle
    /\ IntIdle

NextRetry == RetryNext

SpecRetry == InitRetry /\ [][NextRetry]_vars

InitUI ==
    /\ UIInit
    /\ PipeIdle
    /\ LimIdle
    /\ RetryIdle
    /\ ResIdle
    /\ VisIdle
    /\ BatchIdle
    /\ SortIdle
    /\ IngIdle
    /\ IntIdle

NextUI == UINext

SpecUI == InitUI /\ [][NextUI]_vars

InitResearch ==
    /\ ResInit
    /\ PipeIdle
    /\ LimIdle
    /\ RetryIdle
    /\ UIIdle
    /\ VisIdle
    /\ BatchIdle
    /\ SortIdle
    /\ IngIdle
    /\ IntIdle

NextResearch == ResNext

SpecResearch == InitResearch /\ [][NextResearch]_vars

InitVision ==
    /\ VisInit
    /\ PipeIdle
    /\ LimIdle
    /\ RetryIdle
    /\ UIIdle
    /\ ResIdle
    /\ BatchIdle
    /\ SortIdle
    /\ IngIdle
    /\ IntIdle

NextVision == VisNext

SpecVision == InitVision /\ [][NextVision]_vars

InitBatches ==
    /\ BatchInit
    /\ PipeIdle
    /\ LimIdle
    /\ RetryIdle
    /\ UIIdle
    /\ ResIdle
    /\ VisIdle
    /\ SortIdle
    /\ IngIdle
    /\ IntIdle

NextBatches == BatchNext

SpecBatches == InitBatches /\ [][NextBatches]_vars

InitSort ==
    /\ SortInit
    /\ PipeIdle
    /\ LimIdle
    /\ RetryIdle
    /\ UIIdle
    /\ ResIdle
    /\ VisIdle
    /\ BatchIdle
    /\ IngIdle
    /\ IntIdle

NextSort == SortNext

SpecSort == InitSort /\ [][NextSort]_vars

InitIngredient ==
    /\ IngInit
    /\ PipeIdle
    /\ LimIdle
    /\ RetryIdle
    /\ UIIdle
    /\ ResIdle
    /\ VisIdle
    /\ BatchIdle
    /\ SortIdle
    /\ IntIdle

NextIngredient == IngNext

SpecIngredient == InitIngredient /\ [][NextIngredient]_vars

InitIntent ==
    /\ IntInit
    /\ PipeIdle
    /\ LimIdle
    /\ RetryIdle
    /\ UIIdle
    /\ ResIdle
    /\ VisIdle
    /\ BatchIdle
    /\ SortIdle
    /\ IngIdle

NextIntent == IntNext

SpecIntent == InitIntent /\ [][NextIntent]_vars

====
